---------------------------- MODULE Spec2Model ----------------------------
(***************************************************************************)
(* BioSim: a year-by-year predator/prey simulation on a grid island.       *)
(*                                                                         *)
(* Real numbers are fixed-point integers: a weight or a parameter p is     *)
(* held as p * Scale (three decimals), a fitness as f * FitScale.          *)
(* Every draw from the random source is a nondeterministic choice over     *)
(* the outcomes the draw can produce.                                      *)
(***************************************************************************)
EXTENDS Integers, Sequences, FiniteSets, TLC

VARIABLES
    cells,        \* Map.cells_array: position -> [geography, fodder, animal_list, Carnivores_list]
    year,         \* BioSim._year
    final_years,  \* BioSim._final_years
    herbivores_num, \* BioSim._herbivores_num
    carnivores_num, \* BioSim._carnivores_num
    paramH,       \* Herbivores.parameter
    paramC,       \* Carnivores.parameter
    ParamCell,    \* Cell.ParamCell
    pc,           \* position inside Map.annul_cycle: "idle" or the running phase
    nextId,       \* identity of the next animal object constructed
    hist,         \* phases-by-cell executed so far in the running cycle
    last,         \* record of the last completed call or step
    calls,        \* number of add_population and parameter calls made so far (bounded)
    effort,       \* animal-years simulated so far (bounded)
    fin,          \* input of the pure function under study
    fout          \* its result

vars == <<cells, year, final_years, herbivores_num, carnivores_num, paramH, paramC,
          ParamCell, pc, nextId, hist, last, calls, effort, fin, fout>>

simvars == <<cells, year, final_years, herbivores_num, carnivores_num, paramH, paramC,
             ParamCell, pc, nextId, hist, last, calls, effort>>

(***************************************************************************)
(* Bounds of the model.                                                    *)
(***************************************************************************)
MaxYear == 2
MaxAnimals == 2
MaxCalls == 1
MaxEffort == 2

(***************************************************************************)
(* Fixed-point scales.                                                     *)
(***************************************************************************)
Scale == 10 * 10 * 10
FitScale == 10 * Scale

(***************************************************************************)
(* Generic helpers.                                                        *)
(***************************************************************************)
Max(a, b) == IF a >= b THEN a ELSE b
Min(a, b) == IF a <= b THEN a ELSE b

RECURSIVE SumSeq(_)
SumSeq(s) == IF s = <<>> THEN 0 ELSE Head(s) + SumSeq(Tail(s))

Range(s) == {s[i] : i \in DOMAIN s}

Ids(s) == {s[i].id : i \in DOMAIN s}

Take(s, n) == SubSeq(s, 1, Min(n, Len(s)))

\* A function over 1..n as an explicit list, a function over the positions
\* as an explicit array (the values are computed once, when it is built)
AsList(s) == SubSeq(s, 1, Len(s))
AsArray(f) == f @@ <<>>

\* All orders of a list: the outcomes of random.shuffle.
Perms(s) ==
    {p \in [1..Len(s) -> 1..Len(s)] : \A i, j \in 1..Len(s) : i # j => p[i] # p[j]}

Permute(s, p) == AsList([i \in 1..Len(s) |-> s[p[i]]])

\* Python's sorted(..., key=weight): stable insertion by ascending weight.
RECURSIVE InsertAsc(_, _)
InsertAsc(sorted, a) ==
    IF sorted = <<>> THEN <<a>>
    ELSE IF Head(sorted).weight <= a.weight
         THEN <<Head(sorted)>> \o InsertAsc(Tail(sorted), a)
         ELSE <<a>> \o sorted

RECURSIVE SortAsc(_)
SortAsc(s) ==
    IF s = <<>> THEN <<>> ELSE InsertAsc(SortAsc(Take(s, Len(s) - 1)), s[Len(s)])

\* sorted(..., key=weight, reverse=True): stable, ties keep their order.
RECURSIVE InsertDesc(_, _)
InsertDesc(sorted, a) ==
    IF sorted = <<>> THEN <<a>>
    ELSE IF Head(sorted).weight >= a.weight
         THEN <<Head(sorted)>> \o InsertDesc(Tail(sorted), a)
         ELSE <<a>> \o sorted

RECURSIVE SortDesc(_)
SortDesc(s) ==
    IF s = <<>> THEN <<>> ELSE InsertDesc(SortDesc(Take(s, Len(s) - 1)), s[Len(s)])

(***************************************************************************)
(* random.choices([False, True], [1 - prob, prob])[0] with prob = num/den   *)
(* (den > 0): index 0 is drawn when random() < 1 - prob, so the result is   *)
(* always False for prob <= 0 and always True for prob >= 1.               *)
(***************************************************************************)
\* A coin that can always fall either way
Coin_either_way(num, den) == BOOLEAN

Coin(num, den) ==
    IF num <= 0 THEN {FALSE} ELSE IF num >= den THEN {TRUE} ELSE BOOLEAN

(***************************************************************************)
(* Animal.py                                                               *)
(***************************************************************************)
DefaultH ==
    [w_birth |-> 8000, sigma_birth |-> 1500, beta |-> 900, eta |-> 50,
     a_half |-> 40000, phi_age |-> 600, w_half |-> 10000, phi_weight |-> 100,
     mu |-> 250, gamma |-> 200, zeta |-> 3500, xi |-> 1200, omega |-> 400,
     F |-> 10000]

DefaultC ==
    [w_birth |-> 6000, sigma_birth |-> 1000, beta |-> 750, eta |-> 125,
     a_half |-> 40000, phi_age |-> 300, w_half |-> 4000, phi_weight |-> 400,
     mu |-> 400, gamma |-> 800, zeta |-> 3500, xi |-> 1100, omega |-> 800,
     F |-> 50000, DeltaPhiMax |-> 10000]

\* Animal.__init__
Animal(id, age, weight) == [id |-> id, age |-> age, weight |-> weight, moved |-> FALSE]

\* 1 / (1 + e^x) * FitScale at the integers x = -7 .. 7
LogisticTable ==
    <<9991, 9975, 9933, 9820, 9526, 8808, 7311, 5000, 2689, 1192, 474, 180, 67, 25, 9>>

\* Animal.fitness_formula: 1 / (1 + e^(plus_minus * phi_x * (x - x_half))),
\* interpolated linearly between the table's points; x, x_half, phi_x are
\* fixed-point, so the exponent is held times Scale * Scale.
fitness_formula(plus_minus, x, x_half, phi_x) ==
    LET e  == plus_minus * phi_x * (x - x_half)
        u  == Scale * Scale
        lo == e \div u
        fr == (e - lo * u) \div Scale
    IN  IF lo < -7 THEN LogisticTable[1]
        ELSE IF lo >= 7 THEN LogisticTable[15]
        ELSE LogisticTable[lo + 8]
             - ((LogisticTable[lo + 8] - LogisticTable[lo + 9]) * fr) \div Scale

\* Animal.fitness_calculation (rounded up, so a product of positive terms is positive)
fitness_calculation(age, weight, parameter) ==
    (fitness_formula(1, age * Scale, parameter.a_half, parameter.phi_age)
     * fitness_formula(-1, weight, parameter.w_half, parameter.phi_weight)
     + FitScale - 1) \div FitScale

\* Animal.fitness
fitness(a, parameter) ==
    IF a.weight <= 0 THEN 0 ELSE fitness_calculation(a.age, a.weight, parameter)

\* The samples random.lognormvariate can return in procreate: any positive
\* weight; two are kept, a usual one and one heavy enough to be retracted.
BabyWeights == {8000, 40000}

\* prob of Animal.procreate, as numerator over Scale * FitScale
procreate_prob(a, parameter, N) == parameter.gamma * fitness(a, parameter) * N

\* A procreate that does not look at the age
procreate_any_age(a, parameter, N, flip, baby_weight) ==
    IF /\ a.weight * Scale >= (parameter.w_birth + parameter.sigma_birth) * parameter.zeta
       /\ flip
       /\ a.weight - (parameter.xi * baby_weight) \div Scale >= 0
    THEN [birth |-> TRUE,
          mother |-> [a EXCEPT !.weight = @ - (parameter.xi * baby_weight) \div Scale],
          baby_age |-> 0, baby_weight |-> baby_weight]
    ELSE [birth |-> FALSE, mother |-> a, baby_age |-> 0, baby_weight |-> 0]

\* A procreate that does not look at the weight
procreate_any_weight(a, parameter, N, flip, baby_weight) ==
    IF /\ a.age > 1
       /\ flip
       /\ a.weight - (parameter.xi * baby_weight) \div Scale >= 0
    THEN [birth |-> TRUE,
          mother |-> [a EXCEPT !.weight = @ - (parameter.xi * baby_weight) \div Scale],
          baby_age |-> 0, baby_weight |-> baby_weight]
    ELSE [birth |-> FALSE, mother |-> a, baby_age |-> 0, baby_weight |-> 0]

\* A procreate that never takes a birth back
procreate_unretracted(a, parameter, N, flip, baby_weight) ==
    IF /\ a.weight * Scale >= (parameter.w_birth + parameter.sigma_birth) * parameter.zeta
       /\ a.age > 1
       /\ flip
    THEN [birth |-> TRUE,
          mother |-> [a EXCEPT !.weight = @ - (parameter.xi * baby_weight) \div Scale],
          baby_age |-> 0, baby_weight |-> baby_weight]
    ELSE [birth |-> FALSE, mother |-> a, baby_age |-> 0, baby_weight |-> 0]

\* Animal.procreate with the coin's outcome flip and the sample baby_weight:
\* [birth, mother (self afterwards), baby_age, baby_weight]; the last two
\* are the arguments of self.__class__(0, baby_weight), 0 when no baby is made
procreate(a, parameter, N, flip, baby_weight) ==
    IF /\ a.weight * Scale >= (parameter.w_birth + parameter.sigma_birth) * parameter.zeta
       /\ a.age > 1
       /\ flip
    THEN IF a.weight - (parameter.xi * baby_weight) \div Scale >= 0
         THEN [birth |-> TRUE,
               mother |-> [a EXCEPT !.weight = @ - (parameter.xi * baby_weight) \div Scale],
               baby_age |-> 0, baby_weight |-> baby_weight]
         ELSE [birth |-> FALSE, mother |-> a, baby_age |-> 0, baby_weight |-> 0]
    ELSE [birth |-> FALSE, mother |-> a, baby_age |-> 0, baby_weight |-> 0]

\* Animal.growth_per_year
growth_per_year(a) == [a EXCEPT !.age = @ + 1]

\* A yearly loss that is not cut off at 0
weight_loss_uncut(a, parameter) ==
    [a EXCEPT !.weight = @ - (@ * parameter.eta) \div Scale]

\* Animal.weight_loss_per_year
weight_loss_per_year(a, parameter) ==
    LET w == a.weight - (a.weight * parameter.eta) \div Scale
    IN  [a EXCEPT !.weight = IF w < 0 THEN 0 ELSE w]

\* A die that goes by the coin whatever the weight
die_by_coin_only(a, parameter) ==
    Coin(parameter.omega * (FitScale - fitness(a, parameter)), Scale * FitScale)

\* Animal.die: the set of results die() can return
die(a, parameter) ==
    IF a.weight = 0 THEN {TRUE}
    ELSE Coin(parameter.omega * (FitScale - fitness(a, parameter)), Scale * FitScale)

\* A meal that counts twice
herbivore_eat_twice(a, parameter) ==
    [a EXCEPT !.weight = @ + 2 * ((parameter.beta * parameter.F) \div Scale)]

\* Herbivores.eat
herbivore_eat(a, parameter) ==
    [a EXCEPT !.weight = @ + (parameter.beta * parameter.F) \div Scale]

\* The result of Animal.migrate that is not a cell (False or None)
Stay == <<>>

\* Animal.migrate: the set of results migrate(neighbors) can return; both
\* gates draw with the same prob, and random.choices pads the neighbours
\* with False up to four candidates.
animal_migrate(a, parameter, neighbors) ==
    LET gate == Coin(fitness(a, parameter) * parameter.mu, Scale * FitScale)
    IN  (IF TRUE \in gate
         THEN Range(neighbors) \cup (IF Len(neighbors) < 4 THEN {Stay} ELSE {})
         ELSE {})
        \cup (IF FALSE \in gate THEN {Stay} ELSE {})

\* A hunt in which every prey is certain to be caught
hunt_prob_certain(fit, animal_fitness, parameter) == <<1, 1>>

\* prob of one prey in Carnivores.hunt, as <<numerator, denominator>>
hunt_prob(fit, animal_fitness, parameter) ==
    IF fit <= animal_fitness THEN <<0, 1>>
    ELSE IF /\ 0 < fit - animal_fitness
            /\ (fit - animal_fitness) * Scale < parameter.DeltaPhiMax * FitScale
         THEN <<(fit - animal_fitness) * Scale, parameter.DeltaPhiMax * FitScale>>
         ELSE <<1, 1>>

\* The coin outcomes per prey that Carnivores.hunt can draw
hunt_flips(c, animal_list, parameter, preyParameter) ==
    {AsList(f) : f \in {f \in [1..Len(animal_list) -> BOOLEAN] :
        \A i \in 1..Len(animal_list) :
            LET pr == hunt_prob(fitness(c, parameter),
                                fitness(animal_list[i], preyParameter), parameter)
            IN  f[i] \in Coin(pr[1], pr[2])}}

\* Carnivores.hunt: the prey whose coin came up True, in the order given
RECURSIVE hunt(_, _)
hunt(animal_list, flips) ==
    IF animal_list = <<>> THEN <<>>
    ELSE (IF flips[1] THEN <<Head(animal_list)>> ELSE <<>>)
         \o hunt(Tail(animal_list), Tail(flips))

\* np.cumsum
cumsum(ws) == AsList([i \in 1..Len(ws) |-> SumSeq(SubSeq(ws, 1, i))])

\* np.searchsorted(cum, v, side='left') on a non-decreasing array, 0-based
searchsorted(cum, v) == Cardinality({i \in 1..Len(cum) : cum[i] < v})

\* An eat that consumes everything hunted
carnivore_eat_all(c, parameter, hunt_list) ==
    [carnivore |-> [c EXCEPT !.weight =
                       @ + (parameter.beta
                            * SumSeq(AsList([i \in 1..Len(hunt_list) |-> hunt_list[i].weight])))
                           \div Scale],
     eaten |-> hunt_list]

\* Carnivores.eat after the hunt: [carnivore (self afterwards), eaten]
carnivore_eat(c, parameter, hunt_list) ==
    LET hunt_weight_list == AsList([i \in 1..Len(hunt_list) |-> hunt_list[i].weight])
        cum_weight_list  == cumsum(hunt_weight_list)
        n                == Len(cum_weight_list)
        stop_eat_index   == searchsorted(cum_weight_list, parameter.F)
    IN  IF n < 2
        THEN [carnivore |-> [c EXCEPT !.weight =
                                @ + (parameter.beta * SumSeq(cum_weight_list)) \div Scale],
              eaten |-> hunt_list]
        ELSE IF parameter.F > cum_weight_list[n - 1]
        THEN [carnivore |-> [c EXCEPT !.weight =
                                @ + (parameter.beta * cum_weight_list[n]) \div Scale],
              eaten |-> hunt_list]
        ELSE [carnivore |-> [c EXCEPT !.weight =
                                @ + (parameter.beta * cum_weight_list[stop_eat_index + 1])
                                    \div Scale],
              eaten |-> SubSeq(hunt_list, 1, stop_eat_index + 1)]

(***************************************************************************)
(* Cell.py                                                                 *)
(***************************************************************************)
DefaultParamCell == [f_max_L |-> 800000, f_max_H |-> 300000]

\* Cell.__init__
Cell(geography) ==
    [geography |-> geography, fodder |-> 0, animal_list |-> <<>>, Carnivores_list |-> <<>>]

\* The elements s[i] with keep[i], in order
RECURSIVE Pick(_, _, _)
Pick(s, keep, i) ==
    IF i > Len(s) THEN <<>>
    ELSE (IF keep[i] THEN <<s[i]>> ELSE <<>>) \o Pick(s, keep, i + 1)

\* Cell.produce_fodder
produce_fodder(cell, pcell) ==
    IF cell.geography = "W" \/ cell.geography = "D" THEN cell
    ELSE IF cell.geography = "L"
         THEN [cell EXCEPT !.fodder = @ + pcell.f_max_L]
         ELSE [cell EXCEPT !.fodder = @ + pcell.f_max_H]

\* Draws whose coins are tossed as if each resident were alone in the cell
birth_draws_alone(list, parameter) ==
    {o \in [1..Len(list) -> [flip : BOOLEAN, baby_weight : BabyWeights]] :
        \A i \in 1..Len(list) :
            o[i].flip \in Coin(procreate_prob(list[i], parameter, 1), Scale * FitScale)}

\* The draws of one birth phase over a list: per resident a coin and a sample
birth_draws(list, parameter) ==
    {o \in [1..Len(list) -> [flip : BOOLEAN, baby_weight : BabyWeights]] :
        \A i \in 1..Len(list) :
            o[i].flip \in Coin(procreate_prob(list[i], parameter, Len(list)),
                               Scale * FitScale)}

\* Cell.herbivore_birth / Cell.carnivore_birth on one list: every resident
\* calls procreate(len(list)); the babies are appended after the loop.
\* Returns [list, babies]; babies get the identities firstId, firstId + 1, ...
birth(list, parameter, o, firstId) ==
    LET r == AsList([i \in 1..Len(list) |->
                 procreate(list[i], parameter, Len(list), o[i].flip, o[i].baby_weight)])
        born == AsList([i \in 1..Len(list) |-> r[i].birth])
        nth(i) == Cardinality({j \in 1..i : r[j].birth})
        baby_all == AsList([i \in 1..Len(list) |->
                        Animal(firstId + nth(i) - 1, r[i].baby_age, r[i].baby_weight)])
        baby_animal_list == Pick(baby_all, born, 1)
    IN  [list |-> AsList([i \in 1..Len(list) |-> r[i].mother]) \o baby_animal_list,
         babies |-> baby_animal_list]

\* The loop of Cell.feed_animals over the shuffled list from index i on
RECURSIVE feed_loop(_, _, _, _)
feed_loop(list, fodder, parameter, i) ==
    IF i > Len(list) THEN [animal_list |-> list, fodder |-> fodder]
    ELSE IF fodder >= parameter.F
         THEN feed_loop([list EXCEPT ![i] = herbivore_eat(@, parameter)],
                        fodder - parameter.F, parameter, i + 1)
         ELSE [animal_list |-> list, fodder |-> fodder]

\* Cell.feed_animals with the order perm that random.shuffle produced
feed_animals(cell, parameter, perm) ==
    LET r == feed_loop(Permute(cell.animal_list, perm), cell.fodder, parameter, 1)
    IN  [cell EXCEPT !.animal_list = r.animal_list, !.fodder = r.fodder]

\* A removal that leaves the eaten herbivores in the list
remove_none(list, eaten) == list

\* list.remove for each eaten herbivore
remove_all(list, eaten) ==
    SelectSeq(list, LAMBDA a : a.id \notin Ids(eaten))

\* The loop of Cell.feed_carnivores from the i-th carnivore of the hunting
\* order on: the set of [Carnivores_list, animal_list, meals] it can end
\* with; meals lists, per turn taken, the herbivores the carnivore was
\* offered and those its eat() returned.
RECURSIVE carnivores_loop(_, _, _, _, _, _)
carnivores_loop(carns, herbs, pC, pH, i, meals) ==
    IF i > Len(carns)
    THEN {[Carnivores_list |-> carns, animal_list |-> herbs, meals |-> meals]}
    ELSE LET sorted == SortAsc(herbs)
         IN  UNION {
                 LET r == carnivore_eat(carns[i], pC, hunt(sorted, f))
                 IN  carnivores_loop([carns EXCEPT ![i] = r.carnivore],
                                     remove_all(sorted, r.eaten), pC, pH, i + 1,
                                     Append(meals, [offered |-> sorted, eaten |-> r.eaten]))
                 : f \in hunt_flips(carns[i], sorted, pC, pH)}

\* Cell.feed_carnivores with the turns it took: the set of [cell, meals]
feed_carnivores_turns(cell, pC, pH) ==
    IF Len(cell.Carnivores_list) > 0
    THEN {[cell |-> [cell EXCEPT !.Carnivores_list = r.Carnivores_list,
                                 !.animal_list = r.animal_list],
           meals |-> r.meals] :
             r \in carnivores_loop(SortDesc(cell.Carnivores_list), cell.animal_list,
                                   pC, pH, 1, <<>>)}
    ELSE {[cell |-> cell, meals |-> <<>>]}

\* Cell.feed_carnivores: the set of cells it can leave
feed_carnivores(cell, pC, pH) ==
    {r.cell : r \in feed_carnivores_turns(cell, pC, pH)}

\* Cell.grow_and_loose_weight_herbivore / _carnivore on one list
grow_and_loose_weight(list, parameter) ==
    AsList([i \in 1..Len(list) |->
               weight_loss_per_year(growth_per_year(list[i]), parameter)])

\* A death phase in which no animal dies
death_of_none(list, parameter) == {[list |-> list, died |-> <<>>]}

\* Cell.herbivore_death / Cell.carnivore_death on one list: the set of
\* [list (the survivors), died] the phase can produce
death(list, parameter) ==
    {[list |-> Pick(list, AsList([i \in 1..Len(list) |-> ~d[i]]), 1),
      died |-> Pick(list, d, 1)] :
        d \in {x \in [1..Len(list) -> BOOLEAN] :
                  \A i \in 1..Len(list) : x[i] \in die(list[i], parameter)}}

\* Destinations drawn without looking at the moved flag
migration_draws_ignoring_moved(list, parameter, neighbors) ==
    {d \in [1..Len(list) -> Range(neighbors) \cup {Stay}] :
        \A i \in 1..Len(list) : d[i] \in animal_migrate(list[i], parameter, neighbors)}

\* The destinations one list of Cell.animal_migration can draw: an animal
\* flagged moved is not asked
migration_draws(list, parameter, neighbors) ==
    {d \in [1..Len(list) -> Range(neighbors) \cup {Stay}] :
        \A i \in 1..Len(list) :
            d[i] \in (IF list[i].moved THEN {Stay}
                      ELSE animal_migrate(list[i], parameter, neighbors))}

\* The animals of list sent to cell q, flagged moved, in list order
movers(list, d, q) ==
    Pick(AsList([i \in 1..Len(list) |-> [list[i] EXCEPT !.moved = TRUE]]),
         AsList([i \in 1..Len(list) |-> d[i] = q]), 1)

\* The animals of list that stay
stayers(list, d) == Pick(list, AsList([i \in 1..Len(list) |-> d[i] = Stay]), 1)

\* Cell.animal_migration of the cell at p, with the drawn destinations dH, dC:
\* the whole grid afterwards
animal_migration(grid, p, dH, dC) ==
    AsArray([q \in DOMAIN grid |->
        IF q = p
        THEN [grid[q] EXCEPT !.animal_list = stayers(grid[p].animal_list, dH),
                             !.Carnivores_list = stayers(grid[p].Carnivores_list, dC)]
        ELSE [grid[q] EXCEPT !.animal_list = @ \o movers(grid[p].animal_list, dH, q),
                             !.Carnivores_list =
                                 @ \o movers(grid[p].Carnivores_list, dC, q)]])

(***************************************************************************)
(* Map.py                                                                  *)
(***************************************************************************)
\* The island the model runs on, as Map.island_map_array holds it
island_map_array ==
    << <<"W", "W", "W", "W", "W">>,
       <<"W", "L", "H", "D", "W">>,
       <<"W", "W", "W", "W", "W">> >>

Rows == Len(island_map_array)
Cols == Len(island_map_array[1])

\* 0-based positions, as numpy indexes them
Pos == (0..(Rows - 1)) \X (0..(Cols - 1))

geo(p) == island_map_array[p[1] + 1][p[2] + 1]

\* All positions in row-major order (np.ndenumerate, boolean-mask indexing)
AllPos == AsList([k \in 1..(Rows * Cols) |-> <<(k - 1) \div Cols, (k - 1) % Cols>>])

\* cells_array[island_map_array != 'W']
not_water == SelectSeq(AllPos, LAMBDA p : geo(p) # "W")

\* cells_array[(island_map_array == 'L') | (island_map_array == 'H')]
low_or_high == SelectSeq(AllPos, LAMBDA p : geo(p) = "L" \/ geo(p) = "H")

\* Map.init_cells_array
init_cells_array == AsArray([p \in Pos |-> Cell(geo(p))])

\* A neighbourhood that takes the water cells in as well
neighbors_on_any_terrain(map_array, i, j) ==
    LET map_shape == <<Len(map_array) - 1, Len(map_array[1]) - 1>>
    IN  (IF i > 0 THEN << <<i - 1, j>> >> ELSE <<>>)
        \o (IF i < map_shape[1] THEN << <<i + 1, j>> >> ELSE <<>>)
        \o (IF j > 0 THEN << <<i, j - 1>> >> ELSE <<>>)
        \o (IF j < map_shape[2] THEN << <<i, j + 1>> >> ELSE <<>>)

\* The body of Map.get_neighbors on the grid map_array: the cells it
\* returns, by position, in the order it appends them
neighbors_on(map_array, i, j) ==
    LET island_shape == <<Len(map_array), Len(map_array[1])>>
        map_shape == <<island_shape[1] - 1, island_shape[2] - 1>>
        geography(q) == map_array[q[1] + 1][q[2] + 1]
    IN  (IF i > 0 /\ geography(<<i - 1, j>>) # "W" THEN << <<i - 1, j>> >> ELSE <<>>)
        \o (IF i < map_shape[1] /\ geography(<<i + 1, j>>) # "W"
            THEN << <<i + 1, j>> >> ELSE <<>>)
        \o (IF j > 0 /\ geography(<<i, j - 1>>) # "W" THEN << <<i, j - 1>> >> ELSE <<>>)
        \o (IF j < map_shape[2] /\ geography(<<i, j + 1>>) # "W"
            THEN << <<i, j + 1>> >> ELSE <<>>)

\* Map.get_neighbors
get_neighbors(i, j) == neighbors_on(island_map_array, i, j)

\* The animals Map.add_fauna constructs for one record, of one species
constructed(pop, species, firstId) ==
    LET made(i) == Cardinality({j \in 1..i : pop[j].species \in {"Herbivore", "Carnivore"}})
    IN  Pick(AsList([i \in 1..Len(pop) |->
                        Animal(firstId + made(i) - 1, pop[i].age, pop[i].weight)]),
             AsList([i \in 1..Len(pop) |-> pop[i].species = species]), 1)

\* The loop of Map.add_fauna from record k on; animal_num and Carnivores_num
\* are set to 0 at the start of every record
RECURSIVE add_fauna_loop(_, _, _, _, _)
add_fauna_loop(grid, population, k, firstId, ret) ==
    IF k > Len(population) THEN [grid |-> grid, ret |-> ret, nextId |-> firstId]
    ELSE LET dict == population[k]
             loc == <<dict.loc[1] - 1, dict.loc[2] - 1>>
             animal_list == constructed(dict.pop, "Herbivore", firstId)
             Carnivores_list == constructed(dict.pop, "Carnivore", firstId)
         IN  add_fauna_loop(
                 [grid EXCEPT ![loc].animal_list = @ \o animal_list,
                              ![loc].Carnivores_list = @ \o Carnivores_list],
                 population, k + 1,
                 firstId + Len(animal_list) + Len(Carnivores_list),
                 <<Len(animal_list), Len(Carnivores_list)>>)

\* Map.add_fauna: [grid, ret, nextId]
add_fauna(grid, population, firstId) ==
    IF Len(population) = 0 THEN [grid |-> grid, ret |-> <<0, 0>>, nextId |-> firstId]
    ELSE add_fauna_loop(grid, population, 1, firstId, <<0, 0>>)

\* A cycle that lets the animals migrate before they are fed
annul_cycle_migrating_first ==
    <<"produce", "givebirth", "move_permit", "migrate", "feed", "grow_loss",
      "reset_fodder", "die">>

\* Map.annul_cycle: the phases in the order it calls them
annul_cycle ==
    <<"produce", "givebirth", "feed", "move_permit", "migrate", "grow_loss",
      "reset_fodder", "die">>

phase_index(phase) == CHOOSE k \in 1..Len(annul_cycle) : annul_cycle[k] = phase

\* The residents of every cell, the water included
percell_year_every_cell(grid, field, k) ==
    LET RECURSIVE all(_)
        all(j) == IF j > Len(AllPos) THEN <<>> ELSE grid[AllPos[j]][field] \o all(j + 1)
    IN  all(k)

\* animal_percell_year / carnivore_percell_year of Map.annul_cycle: the
\* residents of the cells cells_array[island_map_array != 'W']
RECURSIVE percell_year(_, _, _)
percell_year(grid, field, k) ==
    IF k > Len(not_water) THEN <<>>
    ELSE grid[not_water[k]][field] \o percell_year(grid, field, k + 1)

(***************************************************************************)
(* Parameter tables: Animal.update_para, Cell.update_cell_para.  A params  *)
(* dict is the sequence of its <<key, value>> items in insertion order.    *)
(***************************************************************************)
\* The first loop of Animal.update_para, from item i on
RECURSIVE update_keys(_, _, _)
update_keys(parameter, params, i) ==
    IF i > Len(params) THEN [parameter |-> parameter, raised |-> "none"]
    ELSE IF params[i][1] \notin DOMAIN parameter
         THEN [parameter |-> parameter, raised |-> "ValueError"]
         ELSE update_keys([parameter EXCEPT ![params[i][1]] = params[i][2]], params, i + 1)

\* Animal.update_para: [parameter (the table afterwards), raised]
update_para(parameter, params) ==
    LET r == update_keys(parameter, params, 1)
    IN  IF r.raised # "none" THEN r
        ELSE IF \E i \in 1..Len(params) : params[i][2] < 0
             THEN [parameter |-> r.parameter, raised |-> "ValueError"]
             ELSE r

\* params['f_max']: the value, or <<>> when the key is missing
lookup_f_max(params) ==
    IF \E i \in 1..Len(params) : params[i][1] = "f_max"
    THEN <<params[CHOOSE i \in 1..Len(params) : params[i][1] = "f_max"][2]>>
    ELSE <<>>

\* An update that gives the value to both landscapes
update_cell_para_both(pcell, landscape, params) ==
    IF Len(params) = 0 THEN [ParamCell |-> pcell, raised |-> "IndexError"]
    ELSE IF params[1][2] < 0 THEN [ParamCell |-> pcell, raised |-> "ValueError"]
    ELSE IF lookup_f_max(params) = <<>> THEN [ParamCell |-> pcell, raised |-> "KeyError"]
    ELSE [ParamCell |-> [f_max_L |-> lookup_f_max(params)[1],
                         f_max_H |-> lookup_f_max(params)[1]],
          raised |-> "none"]

\* Cell.update_cell_para: [ParamCell (the table afterwards), raised]
update_cell_para(pcell, landscape, params) ==
    IF Len(params) = 0 THEN [ParamCell |-> pcell, raised |-> "IndexError"]
    ELSE IF params[1][2] < 0 THEN [ParamCell |-> pcell, raised |-> "ValueError"]
    ELSE IF landscape \notin {"L", "H"} THEN [ParamCell |-> pcell, raised |-> "none"]
    ELSE IF lookup_f_max(params) = <<>> THEN [ParamCell |-> pcell, raised |-> "KeyError"]
    ELSE IF landscape = "L"
         THEN [ParamCell |-> [pcell EXCEPT !.f_max_L = lookup_f_max(params)[1]],
               raised |-> "none"]
         ELSE [ParamCell |-> [pcell EXCEPT !.f_max_H = lookup_f_max(params)[1]],
               raised |-> "none"]

(***************************************************************************)
(* Inputs of the simulation.                                               *)
(***************************************************************************)
Herb(age, weight) == [species |-> "Herbivore", age |-> age, weight |-> weight]
Carn(age, weight) == [species |-> "Carnivore", age |-> age, weight |-> weight]

\* Population specs (1-based locations): none; the test suite's herbivore
\* (age 5, weight 20); a herbivore heavy enough to give birth; a carnivore
\* beside a heavy prey; two location records, the first one in the water.
Populations ==
    { <<>>,
      << [loc |-> <<2, 2>>, pop |-> <<Herb(5, 20000)>>] >>,
      << [loc |-> <<2, 2>>, pop |-> <<Herb(5, 40000)>>] >>,
      << [loc |-> <<2, 3>>, pop |-> <<Herb(5, 60000), Carn(5, 20000)>>] >>,
      << [loc |-> <<1, 1>>, pop |-> <<Herb(5, 20000)>>],
         [loc |-> <<2, 4>>, pop |-> <<Carn(5, 20000)>>] >> }

\* The number of animals a population spec names
RECURSIVE pop_size(_)
pop_size(population) ==
    IF population = <<>> THEN 0 ELSE Len(Head(population).pop) + pop_size(Tail(population))

\* num_years arguments of simulate
SimYears == {-1, 0, 1, 2}

\* Calls of set_animal_parameters: <<species, params>>
AnimalParamCalls ==
    { <<"Herbivore", << <<"omega", 0>> >> >> }

\* Calls of set_landscape_parameters: <<landscape, params>>
LandscapeParamCalls ==
    { <<"L", << <<"f_max", 15000>> >> >>,
      <<"H", << <<"alpha", 0>>, <<"f_max", -300000>> >> >> }

(***************************************************************************)
(* simulation_nograph.py: BioSim                                           *)
(***************************************************************************)
NoCall == [op |-> "init", arg |-> <<>>, ret |-> <<>>, raised |-> "none", year0 |-> 0]

\* BioSim.__init__ with a legal map and the initial population ini_pop
Init ==
    \E ini_pop \in Populations :
        LET r == add_fauna(init_cells_array, ini_pop, 1)
        IN  /\ cells = r.grid
            /\ year = 0
            /\ final_years = 0
            /\ herbivores_num = r.ret[1]
            /\ carnivores_num = r.ret[2]
            /\ paramH = DefaultH
            /\ paramC = DefaultC
            /\ ParamCell = DefaultParamCell
            /\ pc = "idle"
            /\ nextId = r.nextId
            /\ hist = <<>>
            /\ last = [NoCall EXCEPT !.arg = ini_pop, !.ret = r.ret]
            /\ calls = 0
            /\ effort = 0
            /\ fin = <<>>
            /\ fout = <<>>

\* BioSim.add_population
add_population(population) ==
    /\ pc = "idle"
    /\ calls < MaxCalls
    /\ nextId + pop_size(population) <= MaxAnimals + 1
    /\ LET r == add_fauna(cells, population, nextId)
       IN  /\ cells' = r.grid
           /\ nextId' = r.nextId
           /\ herbivores_num' = IF year # 0 THEN herbivores_num + r.ret[1]
                                ELSE herbivores_num
           /\ carnivores_num' = IF year # 0 THEN carnivores_num + r.ret[2]
                                ELSE carnivores_num
           /\ last' = [op |-> "add_population", arg |-> population, ret |-> r.ret,
                       raised |-> "none", year0 |-> year]
    /\ calls' = calls + 1
    /\ UNCHANGED <<year, final_years, paramH, paramC, ParamCell, pc, hist, effort, fin, fout>>

\* BioSim.set_animal_parameters
set_animal_parameters(species, params) ==
    /\ pc = "idle"
    /\ calls < MaxCalls
    /\ LET rH == IF species = "Herbivore" THEN update_para(paramH, params)
                 ELSE [parameter |-> paramH, raised |-> "none"]
           rC == IF species = "Carnivore" THEN update_para(paramC, params)
                 ELSE [parameter |-> paramC, raised |-> "none"]
       IN  /\ paramH' = rH.parameter
           /\ paramC' = rC.parameter
           /\ last' = [op |-> "set_animal_parameters", arg |-> <<species, params>>,
                       ret |-> <<>>, year0 |-> year,
                       raised |-> IF species \notin {"Herbivore", "Carnivore"}
                                  THEN "TypeError"
                                  ELSE IF rH.raised # "none" THEN rH.raised ELSE rC.raised]
    /\ calls' = calls + 1
    /\ UNCHANGED <<cells, year, final_years, herbivores_num, carnivores_num, ParamCell,
                   pc, nextId, hist, effort, fin, fout>>

\* BioSim.set_landscape_parameters
set_landscape_parameters(landscape, params) ==
    /\ pc = "idle"
    /\ calls < MaxCalls
    /\ LET r == IF landscape = "L" \/ landscape = "H"
                THEN update_cell_para(ParamCell, landscape, params)
                ELSE [ParamCell |-> ParamCell, raised |-> "TypeError"]
       IN  /\ ParamCell' = r.ParamCell
           /\ last' = [op |-> "set_landscape_parameters", arg |-> <<landscape, params>>,
                       ret |-> <<>>, raised |-> r.raised, year0 |-> year]
    /\ calls' = calls + 1
    /\ UNCHANGED <<cells, year, final_years, herbivores_num, carnivores_num, paramH, paramC,
                   pc, nextId, hist, effort, fin, fout>>

\* BioSim.simulate up to the first annual cycle: _final_years is set and the
\* while loop is entered or passed
simulate(num_years) ==
    /\ pc = "idle"
    /\ year + num_years <= MaxYear
    /\ final_years' = year + num_years
    /\ pc' = IF year < year + num_years THEN annul_cycle[1] ELSE "idle"
    /\ hist' = <<>>
    /\ last' = [op |-> "simulate", arg |-> num_years, ret |-> <<>>, raised |-> "none",
                year0 |-> year]
    /\ UNCHANGED <<cells, year, herbivores_num, carnivores_num, paramH, paramC, ParamCell,
                   nextId, calls, effort, fin, fout>>

(***************************************************************************)
(* One annual cycle (Map.annul_cycle called from BioSim.simulate), one     *)
(* phase per step: each phase method is a loop over the cells.             *)
(***************************************************************************)
\* Map.produce: the grid afterwards
map_produce(grid) ==
    AsArray([p \in DOMAIN grid |->
        IF p \in Range(low_or_high) THEN produce_fodder(grid[p], ParamCell) ELSE grid[p]])

\* The loop of Map.givebirth from its k-th cell on (herbivore_birth, then
\* carnivore_birth): the set of [grid, nextId] it can end with
RECURSIVE givebirth_loop(_, _, _)
givebirth_loop(grid, firstId, k) ==
    IF k > Len(not_water) THEN {[grid |-> grid, nextId |-> firstId]}
    ELSE LET p == not_water[k]
         IN  UNION {
                 LET rH == birth(grid[p].animal_list, paramH, oH, firstId)
                 IN  UNION {
                         LET rC == birth(grid[p].Carnivores_list, paramC, oC,
                                         firstId + Len(rH.babies))
                         IN  givebirth_loop(
                                 [grid EXCEPT ![p].animal_list = rH.list,
                                              ![p].Carnivores_list = rC.list],
                                 firstId + Len(rH.babies) + Len(rC.babies), k + 1)
                         : oC \in birth_draws(grid[p].Carnivores_list, paramC)}
                 : oH \in birth_draws(grid[p].animal_list, paramH)}

\* The loop of Map.feed from its k-th cell on (feed_animals, then
\* feed_carnivores): the set of grids it can end with
RECURSIVE feed_cells_loop(_, _)
feed_cells_loop(grid, k) ==
    IF k > Len(not_water) THEN {grid}
    ELSE LET p == not_water[k]
         IN  UNION {
                 UNION {feed_cells_loop([grid EXCEPT ![p] = c], k + 1)
                        : c \in feed_carnivores(feed_animals(grid[p], paramH, perm),
                                                paramC, paramH)}
                 : perm \in Perms(grid[p].animal_list)}

\* A cycle that gives no permission to move
map_move_permit_skipped(grid) == grid

\* Map.move_permit: the grid afterwards
map_move_permit(grid) ==
    AsArray([p \in DOMAIN grid |->
        IF p \in Range(not_water)
        THEN [grid[p] EXCEPT
                 !.animal_list = AsList([i \in 1..Len(@) |-> [@[i] EXCEPT !.moved = FALSE]]),
                 !.Carnivores_list =
                     AsList([i \in 1..Len(@) |-> [@[i] EXCEPT !.moved = FALSE]])]
        ELSE grid[p]])

\* The loop of Map.migrate from the k-th cell that is not water on: the set
\* of grids it can end with
RECURSIVE migrate_loop(_, _)
migrate_loop(grid, k) ==
    IF k > Len(not_water) THEN {grid}
    ELSE LET p == not_water[k]
             neighbors == get_neighbors(p[1], p[2])
         IN  UNION {
                 UNION {migrate_loop(animal_migration(grid, p, dH, dC), k + 1)
                        : dC \in migration_draws(grid[p].Carnivores_list, paramC, neighbors)}
                 : dH \in migration_draws(grid[p].animal_list, paramH, neighbors)}

\* Map.grow_loss: the grid afterwards
map_grow_loss(grid) ==
    AsArray([p \in DOMAIN grid |->
        IF p \in Range(not_water)
        THEN [grid[p] EXCEPT
                 !.animal_list = grow_and_loose_weight(@, paramH),
                 !.Carnivores_list = grow_and_loose_weight(@, paramC)]
        ELSE grid[p]])

\* A reset that leaves the fodder where it is
map_reset_fodder_skipped(grid) == grid

\* Map.reset_fodder: the grid afterwards
map_reset_fodder(grid) ==
    AsArray([p \in DOMAIN grid |->
        IF p \in Range(not_water) THEN [grid[p] EXCEPT !.fodder = 0] ELSE grid[p]])

\* The body of the loop of Map.die on one cell: herbivore_death, then
\* carnivore_death; the set of [cell, died_animal_list, died_carnivores_list]
\* (what the two calls return) it can end with
cell_death(cell, pH, pC) ==
    UNION {
        {[cell |-> [cell EXCEPT !.animal_list = rH.list, !.Carnivores_list = rC.list],
          died_animal_list |-> rH.died,
          died_carnivores_list |-> rC.died]
         : rC \in death(cell.Carnivores_list, pC)}
        : rH \in death(cell.animal_list, pH)}

\* The loop of Map.die from its k-th cell on: the set of grids it can end
\* with
RECURSIVE die_loop(_, _)
die_loop(grid, k) ==
    IF k > Len(not_water) THEN {grid}
    ELSE LET p == not_water[k]
         IN  UNION {die_loop([grid EXCEPT ![p] = r.cell], k + 1)
                    : r \in cell_death(grid[p], paramH, paramC)}

\* The cells a phase loops over, in loop order
phase_cells(phase) == IF phase = "produce" THEN low_or_high ELSE not_water

\* annul_cycle goes on to its next phase; hist records the phase with each
\* cell its loop handled
advance ==
    /\ pc' = IF phase_index(pc) < Len(annul_cycle) THEN annul_cycle[phase_index(pc) + 1]
             ELSE "collect"
    /\ hist' = hist \o AsList([k \in 1..Len(phase_cells(pc)) |-> <<pc, phase_cells(pc)[k]>>])
    /\ UNCHANGED <<year, final_years, herbivores_num, carnivores_num, paramH, paramC,
                   ParamCell, last, calls, fin, fout>>

\* The animals that take part in a cycle
live(grid) ==
    Len(percell_year(grid, "animal_list", 1)) + Len(percell_year(grid, "Carnivores_list", 1))

produce ==
    /\ pc = "produce"
    /\ effort + live(cells) <= MaxEffort
    /\ effort' = effort + live(cells)
    /\ cells' = map_produce(cells)
    /\ advance
    /\ UNCHANGED nextId

givebirth ==
    /\ pc = "givebirth"
    /\ \E r \in givebirth_loop(cells, nextId, 1) :
          /\ r.nextId <= MaxAnimals + 1
          /\ cells' = r.grid
          /\ nextId' = r.nextId
    /\ advance
    /\ UNCHANGED effort

feed ==
    /\ pc = "feed"
    /\ cells' \in feed_cells_loop(cells, 1)
    /\ advance
    /\ UNCHANGED <<nextId, effort>>

move_permit ==
    /\ pc = "move_permit"
    /\ cells' = map_move_permit(cells)
    /\ advance
    /\ UNCHANGED <<nextId, effort>>

migrate ==
    /\ pc = "migrate"
    /\ cells' \in migrate_loop(cells, 1)
    /\ advance
    /\ UNCHANGED <<nextId, effort>>

grow_loss ==
    /\ pc = "grow_loss"
    /\ cells' = map_grow_loss(cells)
    /\ advance
    /\ UNCHANGED <<nextId, effort>>

reset_fodder ==
    /\ pc = "reset_fodder"
    /\ cells' = map_reset_fodder(cells)
    /\ advance
    /\ UNCHANGED <<nextId, effort>>

map_die ==
    /\ pc = "die"
    /\ cells' \in die_loop(cells, 1)
    /\ advance
    /\ UNCHANGED <<nextId, effort>>

\* A year counted twice
count_year_twice(y) == y + 2

\* self._year += 1 in BioSim.simulate
count_year(y) == y + 1

\* BioSim.num_animals_per_species
num_animals_per_species == [Herbivore |-> herbivores_num, Carnivore |-> carnivores_num]

\* BioSim.num_animals
num_animals == herbivores_num + carnivores_num

\* The rest of the loop body of BioSim.simulate: the counts are taken from
\* the lists annul_cycle returns, the year is counted, and the loop goes on
\* while _year < _final_years
end_cycle ==
    /\ pc = "collect"
    /\ herbivores_num' = Len(percell_year(cells, "animal_list", 1))
    /\ carnivores_num' = Len(percell_year(cells, "Carnivores_list", 1))
    /\ year' = count_year(year)
    /\ pc' = IF year' < final_years THEN annul_cycle[1] ELSE "idle"
    /\ hist' = <<>>
    /\ UNCHANGED <<cells, final_years, paramH, paramC, ParamCell, nextId, last, calls,
                   effort, fin, fout>>

Next ==
    \/ \E population \in Populations : add_population(population)
    \/ \E c \in AnimalParamCalls : set_animal_parameters(c[1], c[2])
    \/ \E c \in LandscapeParamCalls : set_landscape_parameters(c[1], c[2])
    \/ \E num_years \in SimYears : simulate(num_years)
    \/ produce
    \/ givebirth
    \/ feed
    \/ move_permit
    \/ migrate
    \/ grow_loss
    \/ reset_fodder
    \/ map_die
    \/ end_cycle

Spec == Init /\ [][Next]_vars

(***************************************************************************)
(* Properties of the annual cycle.                                         *)
(***************************************************************************)
Species == {"animal_list", "Carnivores_list"}

\* The phases of one cycle in the documented order, each with the cells it
\* has to handle: production on the Lowland and Highland cells, every other
\* phase on the cells that are not water
C1_Schedule ==
    LET ps == <<"produce", "givebirth", "feed", "move_permit", "migrate", "grow_loss",
                "reset_fodder", "die">>
        on(ph) == IF ph = "produce" THEN low_or_high ELSE not_water
        RECURSIVE from(_)
        from(k) == IF k > Len(ps) THEN <<>>
                   ELSE AsList([i \in 1..Len(on(ps[k])) |-> <<ps[k], on(ps[k])[i]>>])
                        \o from(k + 1)
    IN  from(1)

\* C1: within a cycle the phases run in the order production, births,
\* feeding, moved-flag reset, migration, aging and weight loss, fodder reset,
\* death, and a phase has handled every one of its cells before the next
\* phase handles any: what has run so far is always an initial part of that
\* schedule, the phase about to run is the next one of it, and the cycle is
\* complete when the counts are collected.
C1_PhaseOrder ==
    /\ Len(hist) <= Len(C1_Schedule)
    /\ hist = SubSeq(C1_Schedule, 1, Len(hist))
    /\ pc = "collect" => hist = C1_Schedule
    /\ pc = "idle" => hist = <<>>
    /\ pc \notin {"collect", "idle"} =>
          /\ Len(hist) < Len(C1_Schedule)
          /\ C1_Schedule[Len(hist) + 1][1] = pc
          /\ \A k \in 1..Len(hist) : hist[k][1] # pc

\* A cycle in which an animal took part has run all its phases
C1_Witness ==
    /\ pc = "collect"
    /\ hist = C1_Schedule
    /\ effort >= 1

\* The places <<cell, index>> at which the lists of one species hold the
\* animal id
holders(grid, field, id) ==
    UNION {{<<p, i>> : i \in {j \in 1..Len(grid[p][field]) : grid[p][field][j].id = id}}
           : p \in Pos}

\* The number of animals on the whole grid
population_size(grid) ==
    Cardinality(UNION {{<<f, q>> : q \in UNION {{<<p, i>> : i \in 1..Len(grid[p][f])}
                                                 : p \in Pos}} : f \in Species})

\* C2: the migration phase keeps every animal exactly once, in a list of
\* its own species, and moves it at most once: afterwards it is in the cell
\* it was in or in a neighbour of that cell (flagged moved), never further.
C2_MigrationMovesOnce ==
    [][pc = "migrate" =>
        /\ population_size(cells') = population_size(cells)
        /\ \A f \in Species : \A p \in Pos : \A i \in 1..Len(cells[p][f]) :
              LET a == cells[p][f][i]
                  h == holders(cells', f, a.id)
              IN  /\ Cardinality(h) = 1
                  /\ \A g \in Species \ {f} : holders(cells', g, a.id) = {}
                  /\ \A x \in h :
                        /\ x[1] = p \/ x[1] \in Range(get_neighbors(p[1], p[2]))
                        /\ cells'[x[1]][f][x[2]] = [a EXCEPT !.moved = (x[1] # p)]]_vars

\* The only animal of the run started in the Lowland cell and has been
\* transferred to the Highland cell, which the phase sweeps after it
C2_Witness ==
    /\ pc = "grow_loss"
    /\ year = 0
    /\ nextId = 2
    /\ \E f \in Species : \E i \in 1..Len(cells[<<1, 2>>][f]) : cells[<<1, 2>>][f][i].moved


\* C3: a carnivore never consumes more prey weight than its cap F in one
\* eat(): in the feeding phase its weight grows by at most beta * F.
C3_EatWithinCap ==
    [][pc = "feed" =>
        \A p \in Pos : \A i \in 1..Len(cells[p].Carnivores_list) :
            \A j \in 1..Len(cells'[p].Carnivores_list) :
                LET c == cells[p].Carnivores_list[i]
                    d == cells'[p].Carnivores_list[j]
                IN  d.id = c.id => (d.weight - c.weight) * Scale <= paramC.beta * paramC.F]_vars

\* C4: the fodder stock of a cell is never negative.
C4_FodderNeverNegative == \A p \in Pos : cells[p].fodder >= 0

\* C5: when feeding starts every Lowland cell holds exactly f_max_L, every
\* Highland cell exactly f_max_H and every Water and Desert cell 0; when a
\* cycle ends, and until the next production, every cell that is not water
\* holds 0.
C5_FodderPerCycle ==
    /\ pc \in {"givebirth", "feed"} =>
          \A p \in Pos :
              cells[p].fodder = (IF geo(p) = "L" THEN ParamCell.f_max_L
                                 ELSE IF geo(p) = "H" THEN ParamCell.f_max_H
                                 ELSE 0)
    /\ pc \in {"die", "collect", "idle", "produce"} =>
          \A p \in Pos : geo(p) # "W" => cells[p].fodder = 0

\* The second cycle of a run is about to feed a herbivore that has grazed in
\* the first, from a Lowland cell stocked with f_max_L again
C5_Witness ==
    /\ pc = "feed"
    /\ year = 1
    /\ effort = 2
    /\ ParamCell.f_max_L > 0
    /\ cells[<<1, 1>>].fodder = ParamCell.f_max_L
    /\ \E p \in Pos : \E i \in 1..Len(cells[p].animal_list) :
          cells[p].animal_list[i].age = 6

\* C6: add_population makes num_animals grow by exactly the number of
\* animals in the population it is given, at year 0 as well as later.
C6_AddPopulationCounted ==
    [][last'.op = "add_population" /\ calls' # calls =>
          num_animals' = num_animals + pop_size(last'.arg)]_vars

\* The animals of one species a population spec names
RECURSIVE species_size(_, _)
species_size(population, species) ==
    IF population = <<>> THEN 0
    ELSE Cardinality({i \in 1..Len(Head(population).pop) :
                         Head(population).pop[i].species = species})
         + species_size(Tail(population), species)

\* C7: add_fauna returns the herbivores and the carnivores it added,
\* totalled over all the location records of the population.
C7_AddFaunaReturnsTotals ==
    last.op \in {"init", "add_population"} =>
        last.ret = <<species_size(last.arg, "Herbivore"), species_size(last.arg, "Carnivore")>>

\* The number of animals in the field lists of the cells that are not water
residents(field) ==
    Cardinality(UNION {{<<p, i>> : i \in 1..Len(cells[p][field])}
                       : p \in {q \in Pos : geo(q) # "W"}})

\* C8: after every annual cycle of simulate the counts per species are the
\* numbers of animals of the species living in the cells that are not
\* water, and num_animals is always their sum.
C8_CountsAfterCycle ==
    /\ num_animals = num_animals_per_species.Herbivore + num_animals_per_species.Carnivore
    /\ (last.op = "simulate" /\ year > last.year0 /\ pc \in {"idle", "produce"}) =>
          /\ num_animals_per_species.Herbivore = residents("animal_list")
          /\ num_animals_per_species.Carnivore = residents("Carnivores_list")

\* simulate has returned after a cycle with one animal on land and one in
\* the water
C8_Witness ==
    /\ pc = "idle"
    /\ last.op = "simulate"
    /\ year > last.year0
    /\ num_animals = 1
    /\ \E p \in Pos : geo(p) = "W" /\ Len(cells[p].animal_list) > 0

\* C9: the year starts at 0, grows by one exactly when an annual cycle is
\* completed and changes at no other step (add_population and the
\* parameter setters included); when simulate(n) has returned it is the year
\* before the call plus n, and the year before the call when n <= 0.
C9_YearCounts ==
    /\ year = 0
    /\ [][IF pc = "collect" THEN year' = year + 1 ELSE year' = year]_vars
    /\ [](pc = "idle" /\ last.op = "simulate" => year = last.year0 + Max(last.arg, 0))

\* simulate(1) has returned twice
C9_Witness ==
    /\ pc = "idle"
    /\ last.op = "simulate"
    /\ last.arg = 1
    /\ last.year0 = 1
    /\ year = 2

(***************************************************************************)
(* Animal.procreate on its own: one call on one animal.  fin is the call   *)
(* (the animal's species, age and weight and the argument N), fout the     *)
(* draws and what the call returned.                                       *)
(***************************************************************************)
ProcreateAges == {0, 1, 2, 5}
ProcreateWeights == {0, 8000, 24499, 24500, 33249, 33250, 60000}
ProcreateN == {1, 2, 3}

parameter_of(species) == IF species = "Herbivore" THEN paramH ELSE paramC

InitProcreate ==
    /\ cells = init_cells_array
    /\ year = 0
    /\ final_years = 0
    /\ herbivores_num = 0
    /\ carnivores_num = 0
    /\ paramH = DefaultH
    /\ paramC = DefaultC
    /\ ParamCell = DefaultParamCell
    /\ pc = "call"
    /\ nextId = 1
    /\ hist = <<>>
    /\ last = NoCall
    /\ calls = 0
    /\ effort = 0
    /\ fin \in [species : {"Herbivore", "Carnivore"}, age : ProcreateAges,
                weight : ProcreateWeights, N : ProcreateN]
    /\ fout = <<>>

call_procreate ==
    /\ pc = "call"
    /\ LET a == Animal(1, fin.age, fin.weight)
           parameter == parameter_of(fin.species)
       IN  \E flip \in Coin(procreate_prob(a, parameter, fin.N), Scale * FitScale) :
           \E baby_weight \in BabyWeights :
               fout' = [flip |-> flip, baby_weight |-> baby_weight,
                        result |-> procreate(a, parameter, fin.N, flip, baby_weight)]
    /\ pc' = "done"
    /\ UNCHANGED <<cells, year, final_years, herbivores_num, carnivores_num, paramH, paramC,
                   ParamCell, nextId, hist, last, calls, effort, fin>>

NextProcreate == call_procreate

SpecProcreate == InitProcreate /\ [][NextProcreate]_vars

\* C10: an animal of age 1 or less, or lighter than
\* zeta * (w_birth + sigma_birth), gets no birth from procreate whatever N
\* and the draws are: no offspring, and its weight stays as it was.
C10_NoBirthYoungOrLight ==
    pc = "done" =>
        LET parameter == parameter_of(fin.species)
        IN  (\/ fin.age <= 1
             \/ fin.weight * Scale < parameter.zeta * (parameter.w_birth + parameter.sigma_birth))
            => /\ fout.result.birth = FALSE
               /\ fout.result.baby_weight = 0
               /\ fout.result.mother = Animal(1, fin.age, fin.weight)

\* An animal of age 1, heavy enough, whose coin came up True
C10_Witness ==
    /\ pc = "done"
    /\ fin.age = 1
    /\ fin.weight = 60000
    /\ fout.flip
    /\ fout.result.birth = FALSE


\* C11: a call of procreate that returns a birth lowers the mother's weight
\* by exactly xi * baby_weight, leaves it at 0 or more and makes one baby of
\* age 0 with the sampled weight; a call that returns no birth, the one
\* retracted because the baby would cost more than the mother weighs
\* included, makes no baby and leaves the mother as she was.
C11_BirthAllOrNothing ==
    pc = "done" =>
        LET parameter == parameter_of(fin.species)
            a == Animal(1, fin.age, fin.weight)
            r == fout.result
            cost == (parameter.xi * fout.baby_weight) \div Scale
        IN  /\ r.birth =>
                  /\ r.mother = [a EXCEPT !.weight = fin.weight - cost]
                  /\ r.mother.weight >= 0
                  /\ r.baby_age = 0
                  /\ r.baby_weight = fout.baby_weight
            /\ ~r.birth => r.mother = a /\ r.baby_weight = 0
            /\ (fin.weight - cost < 0) => ~r.birth

\* A mother heavy enough and old enough whose coin came up True, and whose
\* sampled baby would cost more than she weighs
C11_Witness ==
    /\ pc = "done"
    /\ fin.age = 5
    /\ fin.weight = 33250
    /\ fout.flip
    /\ fout.baby_weight = 40000
    /\ ~fout.result.birth


(***************************************************************************)
(* The birth phase of one cell on its own: Cell.herbivore_birth followed   *)
(* by Cell.carnivore_birth, as Map.givebirth calls them.  fin is the cell  *)
(* before, fout the draws and the two lists afterwards.                    *)
(***************************************************************************)
BirthResidents == {<<5, 60000>>, <<5, 20000>>}
MaxResidents == 2

\* The lists of at most MaxResidents residents, with identities from
\* firstId on
resident_lists(firstId) ==
    UNION {{AsList([i \in 1..n |-> Animal(firstId + i - 1, c[i][1], c[i][2])])
            : c \in [1..n -> BirthResidents]} : n \in 0..MaxResidents}

InitBirth ==
    /\ cells = init_cells_array
    /\ year = 0
    /\ final_years = 0
    /\ herbivores_num = 0
    /\ carnivores_num = 0
    /\ paramH = DefaultH
    /\ paramC = DefaultC
    /\ ParamCell = DefaultParamCell
    /\ pc = "call"
    /\ nextId = 1
    /\ hist = <<>>
    /\ last = NoCall
    /\ calls = 0
    /\ effort = 0
    /\ \E hs \in resident_lists(1) : \E cs \in resident_lists(MaxResidents + 1) :
          fin = [Cell("L") EXCEPT !.animal_list = hs, !.Carnivores_list = cs]
    /\ fout = <<>>

call_births ==
    /\ pc = "call"
    /\ \E oH \in birth_draws(fin.animal_list, paramH) :
       \E oC \in birth_draws(fin.Carnivores_list, paramC) :
           LET firstId == 2 * MaxResidents + 1
               rH == birth(fin.animal_list, paramH, oH, firstId)
               rC == birth(fin.Carnivores_list, paramC, oC, firstId + Len(rH.babies))
           IN  fout' = [animal_list |-> [draws |-> AsList(oH), list |-> rH.list],
                        Carnivores_list |-> [draws |-> AsList(oC), list |-> rC.list]]
    /\ pc' = "done"
    /\ UNCHANGED <<cells, year, final_years, herbivores_num, carnivores_num, paramH, paramC,
                   ParamCell, nextId, hist, last, calls, effort, fin>>

NextBirth == call_births

SpecBirth == InitBirth /\ [][NextBirth]_vars

\* C12: in the birth phase of a cell every resident tosses its coin with the
\* same N, the number of residents of its species before the phase; the
\* residents stay first in their list, in order; the newborns follow them,
\* are of age 0 with the weight sampled for them, are as many as the
\* residents that paid for a birth, and made no attempt themselves; so the
\* species counts N to 2N animals afterwards.
C12_BirthsUseOriginalCount ==
    pc = "done" =>
        \A f \in Species :
            LET parameter == IF f = "animal_list" THEN paramH ELSE paramC
                before == fin[f]
                after == fout[f].list
                draws == fout[f].draws
                N == Len(before)
                paid == {i \in 1..N : after[i].weight < before[i].weight}
            IN  /\ N <= Len(after) /\ Len(after) <= 2 * N
                /\ Len(draws) = N
                /\ \A i \in 1..N :
                      /\ draws[i].flip \in Coin(procreate_prob(before[i], parameter, N),
                                                Scale * FitScale)
                      /\ after[i].id = before[i].id
                      /\ after[i].age = before[i].age
                      /\ i \notin paid => after[i] = before[i]
                /\ Len(after) - N = Cardinality(paid)
                /\ \A j \in (N + 1)..Len(after) :
                      /\ after[j].age = 0
                      /\ after[j].weight \in {draws[i].baby_weight : i \in paid}
                      /\ after[j].id \notin Ids(fin.animal_list) \cup Ids(fin.Carnivores_list)
                      /\ \A k \in (N + 1)..Len(after) : after[k].id = after[j].id => k = j

\* Two carnivores fit enough for min(1, gamma * fitness * 2) to be 1: both
\* gave birth, which a coin tossed for one resident alone need not grant
C12_Witness ==
    /\ pc = "done"
    /\ Len(fin.Carnivores_list) = 2
    /\ Len(fout.Carnivores_list.list) = 4
    /\ Len(fin.animal_list) = 1
    /\ Len(fout.animal_list.list) = 2


(***************************************************************************)
(* The death phase of one list on its own: Cell.herbivore_death or         *)
(* Cell.carnivore_death, with the default table or with omega set to 0.    *)
(* fin is the species and the list before, fout the survivors and the      *)
(* dead.                                                                   *)
(***************************************************************************)
DeathResidents == {<<5, 0>>, <<5, 20000>>, <<60, 3000>>, <<0, 8000>>}

OmegaZero == << <<"omega", 0>> >>

InitDeath ==
    /\ cells = init_cells_array
    /\ year = 0
    /\ final_years = 0
    /\ herbivores_num = 0
    /\ carnivores_num = 0
    /\ paramH \in {DefaultH, update_para(DefaultH, OmegaZero).parameter}
    /\ paramC \in {DefaultC, update_para(DefaultC, OmegaZero).parameter}
    /\ ParamCell = DefaultParamCell
    /\ pc = "call"
    /\ nextId = 1
    /\ hist = <<>>
    /\ last = NoCall
    /\ calls = 0
    /\ effort = 0
    /\ \E f \in {"Herbivore", "Carnivore"} : \E n \in 0..MaxResidents :
       \E c \in [1..n -> DeathResidents] :
          fin = [species |-> f,
                 list |-> AsList([i \in 1..n |-> Animal(i, c[i][1], c[i][2])])]
    /\ fout = <<>>

call_death ==
    /\ pc = "call"
    /\ fout' \in death(fin.list, parameter_of(fin.species))
    /\ pc' = "done"
    /\ UNCHANGED <<cells, year, final_years, herbivores_num, carnivores_num, paramH, paramC,
                   ParamCell, nextId, hist, last, calls, effort, fin>>

NextDeath == call_death

SpecDeath == InitDeath /\ [][NextDeath]_vars

\* C13: die() is True, with no draw, for an animal whose weight is 0,
\* whatever its age, species and table, and the death phase removes every
\* such animal from its list.
C13_WeightZeroDies ==
    pc = "done" =>
        \A i \in 1..Len(fin.list) :
            fin.list[i].weight = 0 =>
                /\ die(fin.list[i], parameter_of(fin.species)) = {TRUE}
                /\ fin.list[i] \in Range(fout.died)
                /\ fin.list[i].id \notin Ids(fout.list)

\* The phase has run on a list of an animal of weight 0 and one of weight
\* 20, which survived
C13_Witness ==
    /\ pc = "done"
    /\ parameter_of(fin.species).omega > 0
    /\ Len(fin.list) = 2
    /\ fin.list[1].weight = 0
    /\ Len(fout.list) = 1
    /\ fout.list[1].weight = 20000

\* C14: with omega 0 in the table of a species die() is False for every
\* animal of the species whose weight is above 0, whatever its age and
\* fitness, and the death phase removes exactly the animals of weight 0.
C14_OmegaZeroSpares ==
    (pc = "done" /\ parameter_of(fin.species).omega = 0) =>
        /\ \A i \in 1..Len(fin.list) :
              fin.list[i].weight > 0 =>
                  /\ die(fin.list[i], parameter_of(fin.species)) = {FALSE}
                  /\ fin.list[i] \in Range(fout.list)
        /\ Ids(fout.died) = {fin.list[i].id : i \in {j \in 1..Len(fin.list) :
                                                         fin.list[j].weight = 0}}
        /\ Len(fout.list) + Len(fout.died) = Len(fin.list)

\* With omega 0 the phase has run on an old, light animal and one of weight 0
C14_Witness ==
    /\ pc = "done"
    /\ parameter_of(fin.species).omega = 0
    /\ Len(fin.list) = 2
    /\ fin.list[1].weight = 3000
    /\ fin.list[1].age = 60
    /\ fin.list[2].weight = 0
    /\ Len(fout.list) = 1


(***************************************************************************)
(* Properties of whole cycles and of the parameter setters.                *)
(***************************************************************************)
\* The herbivores on the whole map, cell by cell
all_herbivores(grid) ==
    LET RECURSIVE from(_)
        from(k) == IF k > Len(AllPos) THEN <<>>
                   ELSE grid[AllPos[k]].animal_list \o from(k + 1)
    IN  from(1)

\* Every herbivore on the map is lighter than zeta * (w_birth + sigma_birth)
all_light(grid) ==
    \A i \in 1..Len(all_herbivores(grid)) :
        all_herbivores(grid)[i].weight * Scale
            < paramH.zeta * (paramH.w_birth + paramH.sigma_birth)

\* C15: a cycle that starts with every herbivore lighter than
\* zeta * (w_birth + sigma_birth) ends with at most as many herbivores as it
\* started with, and with the year advanced by 1: production leaves the
\* animals as they are and is followed at once by the births, which add no
\* herbivore when all are light, no later phase adds a herbivore, whatever
\* weight feeding gave, and the count taken at the end is at most the
\* number of herbivores left.
C15_LightHerdNeverGrows ==
    [][/\ pc = "produce" =>
             /\ pc' = "givebirth"
             /\ \A p \in Pos : cells'[p].animal_list = cells[p].animal_list
       /\ (pc = "givebirth" /\ all_light(cells)) =>
             Len(all_herbivores(cells')) = Len(all_herbivores(cells))
       /\ pc \in {"feed", "move_permit", "migrate", "grow_loss", "reset_fodder", "die"} =>
             Len(all_herbivores(cells')) <= Len(all_herbivores(cells))
       /\ pc = "collect" =>
             /\ herbivores_num' <= Len(all_herbivores(cells))
             /\ year' = year + 1]_vars

\* After the first cycle of a run whose only animal is a light herbivore:
\* it has grazed, is still alone and the year is 1
C15_Witness ==
    /\ pc = "idle"
    /\ year = 1
    /\ nextId = 2
    /\ herbivores_num = 1
    /\ Len(all_herbivores(cells)) = 1
    /\ all_herbivores(cells)[1].weight > 20000
    /\ all_light(cells)


\* The keys and the values of a params dict
keys_of(params) == {params[i][1] : i \in 1..Len(params)}
values_of(params) == {params[i][2] : i \in 1..Len(params)}

\* C16: a setter called with a species other than Herbivore / Carnivore, or
\* a landscape other than L / H, raises a type error; called with a valid
\* species or landscape and a key that is not a parameter, or a negative
\* value, it raises a value error.
C16_SetterErrors ==
    /\ last.op = "set_animal_parameters" =>
          IF last.arg[1] \notin {"Herbivore", "Carnivore"} THEN last.raised = "TypeError"
          ELSE (\/ keys_of(last.arg[2]) \ DOMAIN DefaultH # {}
                \/ \E v \in values_of(last.arg[2]) : v < 0) => last.raised = "ValueError"
    /\ last.op = "set_landscape_parameters" =>
          IF last.arg[1] \notin {"L", "H"} THEN last.raised = "TypeError"
          ELSE (\/ keys_of(last.arg[2]) \ {"f_max"} # {}
                \/ \E v \in values_of(last.arg[2]) : v < 0) => last.raised = "ValueError"


(***************************************************************************)
(* The parameter setters on their own, called on a new simulation with a   *)
(* wider choice of arguments.                                              *)
(***************************************************************************)
\* The params dicts of at most two items over the given keys and values
dicts(keys, values) ==
    {<<>>} \cup {<< <<k, v>> >> : k \in keys, v \in values}
           \cup {<< <<k[1], v[1]>>, <<k[2], v[2]>> >> :
                    k \in {x \in keys \X keys : x[1] # x[2]}, v \in values \X values}

SetterAnimalCalls ==
    {"Herbivore", "Carnivore", "tiger"}
        \X dicts({"omega", "F", "DeltaPhiMax", "X"}, {0, 5000, -1000})

SetterLandscapeCalls ==
    {"L", "H", "X"} \X dicts({"f_max", "alpha"}, {700000, 0, -1000})

InitSetters == Init /\ last.arg = <<>>

NextSetters ==
    \/ \E c \in SetterAnimalCalls : set_animal_parameters(c[1], c[2])
    \/ \E c \in SetterLandscapeCalls : set_landscape_parameters(c[1], c[2])

SpecSetters == InitSetters /\ [][NextSetters]_vars

\* The value a params dict gives for a key
value_of(params, key) == params[CHOOSE i \in 1..Len(params) : params[i][1] = key][2]

\* The table with the items of a params dict written into it
written(table, params) ==
    [k \in DOMAIN table |-> IF k \in keys_of(params) THEN value_of(params, k) ELSE table[k]]

\* C17: a legal call of a setter changes what it names and nothing else.
\* set_animal_parameters with a species, keys of its table and values of 0
\* or more leaves that table with the given value under every given key,
\* its other keys as they were, and the other species' table, the landscape
\* table and the island as they were; set_landscape_parameters('L' or 'H',
\* {f_max: v}) with v of 0 or more leaves that landscape's f_max at v and
\* everything else as it was.
C17_LegalCallChangesWhatItNames ==
    [][/\ (/\ last'.op = "set_animal_parameters"
           /\ calls' # calls
           /\ last'.arg[1] \in {"Herbivore", "Carnivore"}
           /\ keys_of(last'.arg[2]) \subseteq DOMAIN parameter_of(last'.arg[1])
           /\ \A v \in values_of(last'.arg[2]) : v >= 0)
          => /\ last'.raised = "none"
             /\ paramH' = IF last'.arg[1] = "Herbivore" THEN written(paramH, last'.arg[2])
                          ELSE paramH
             /\ paramC' = IF last'.arg[1] = "Carnivore" THEN written(paramC, last'.arg[2])
                          ELSE paramC
             /\ UNCHANGED <<ParamCell, cells, year, herbivores_num, carnivores_num>>
       /\ (/\ last'.op = "set_landscape_parameters"
           /\ calls' # calls
           /\ last'.arg[1] \in {"L", "H"}
           /\ keys_of(last'.arg[2]) = {"f_max"}
           /\ \A v \in values_of(last'.arg[2]) : v >= 0)
          => /\ last'.raised = "none"
             /\ ParamCell' = IF last'.arg[1] = "L"
                             THEN [ParamCell EXCEPT !.f_max_L = value_of(last'.arg[2], "f_max")]
                             ELSE [ParamCell EXCEPT !.f_max_H = value_of(last'.arg[2], "f_max")]
             /\ UNCHANGED <<paramH, paramC, cells, year, herbivores_num, carnivores_num>>]_vars

\* The Lowland maximum has been set to 700 and the Highland one is as it was
C17_Witness ==
    /\ last.op = "set_landscape_parameters"
    /\ last.arg = <<"L", << <<"f_max", 700000>> >> >>
    /\ last.raised = "none"
    /\ ParamCell = [DefaultParamCell EXCEPT !.f_max_L = 700000]


(***************************************************************************)
(* The map validation of BioSim.__init__ on its own.  A terrain string is  *)
(* the sequence of its characters; fin is the rows it was written from and *)
(* the string, fout what the constructor did with it.                      *)
(***************************************************************************)
MapChars == {"W", "L", "X"}
MapRowLengths == {2, 3}
MapRowCounts == {3}

geography_dict == {"W", "L", "H", "D"}

\* '\n'.join(rows)
RECURSIVE join(_)
join(rows) ==
    IF Len(rows) = 0 THEN <<>>
    ELSE IF Len(rows) = 1 THEN rows[1]
    ELSE rows[1] \o <<"\n">> \o join(Tail(rows))

\* str.split('\n'): the pieces between the newlines, the current one last
RECURSIVE split(_, _)
split(str, piece) ==
    IF str = <<>> THEN <<piece>>
    ELSE IF Head(str) = "\n" THEN <<piece>> \o split(Tail(str), <<>>)
    ELSE split(Tail(str), Append(piece, Head(str)))

\* A border test that finds nothing
border_unchecked(map_array) == FALSE

\* any(map_array[0, :] != 'W') | any(map_array[-1, :] != 'W') |
\* any(map_array[:, 0] != 'W') | any(map_array[:, -1] != 'W')
border_not_water(map_array) ==
    \/ \E j \in 1..Len(map_array[1]) : map_array[1][j] # "W"
    \/ \E j \in 1..Len(map_array[Len(map_array)]) : map_array[Len(map_array)][j] # "W"
    \/ \E i \in 1..Len(map_array) : map_array[i][1] # "W"
    \/ \E i \in 1..Len(map_array) : map_array[i][Len(map_array[i])] # "W"

\* The map check of BioSim.__init__ and what follows it: [raised, map_array],
\* map_array being the grid of the simulation made, <<>> when none is made
construct(island_map) ==
    LET lines == split(island_map, <<>>)
        row_lengths == {Len(lines[i]) : i \in 1..Len(lines)}
        letters == AsList([i \in 1..Len(island_map) |->
                              IF island_map[i] = "\n" THEN "W" ELSE island_map[i]])
    IN  IF Cardinality(row_lengths) > 1 THEN [raised |-> "ValueError", map_array |-> <<>>]
        ELSE IF Len(lines[1]) = 0 THEN [raised |-> "IndexError", map_array |-> <<>>]
        ELSE IF border_not_water(lines) THEN [raised |-> "ValueError", map_array |-> <<>>]
        ELSE IF \E i \in 1..Len(letters) : letters[i] \notin geography_dict
             THEN [raised |-> "ValueError", map_array |-> <<>>]
             ELSE [raised |-> "none", map_array |-> lines]

InitConstruct ==
    /\ cells = init_cells_array
    /\ year = 0
    /\ final_years = 0
    /\ herbivores_num = 0
    /\ carnivores_num = 0
    /\ paramH = DefaultH
    /\ paramC = DefaultC
    /\ ParamCell = DefaultParamCell
    /\ pc = "call"
    /\ nextId = 1
    /\ hist = <<>>
    /\ last = NoCall
    /\ calls = 0
    /\ effort = 0
    /\ \E n \in MapRowCounts :
       \E rows \in [1..n -> UNION {[1..m -> MapChars] : m \in MapRowLengths}] :
          fin = [rows |-> AsList([i \in 1..n |-> AsList(rows[i])]),
                 island_map |-> join(AsList([i \in 1..n |-> AsList(rows[i])]))]
    /\ fout = <<>>

call_construct ==
    /\ pc = "call"
    /\ fout' = construct(fin.island_map)
    /\ pc' = "done"
    /\ UNCHANGED <<cells, year, final_years, herbivores_num, carnivores_num, paramH, paramC,
                   ParamCell, nextId, hist, last, calls, effort, fin>>

NextConstruct == call_construct

SpecConstruct == InitConstruct /\ [][NextConstruct]_vars

\* The rows have one length
rectangular(rows) == \A i, j \in 1..Len(rows) : Len(rows[i]) = Len(rows[j])

\* The cells of the first and the last row and of the first and the last
\* column of a rectangular grid
border(rows) ==
    {<<i, j>> \in (1..Len(rows)) \X (1..Len(rows[1])) :
        i = 1 \/ i = Len(rows) \/ j = 1 \/ j = Len(rows[1])}

\* C18: a terrain string whose rows differ in length, or with a border cell
\* that is not Water, or with a character other than W, L, H, D, makes the
\* constructor raise a value error and no simulation; so the grid of every
\* simulation made is rectangular with nothing but Water on its border (and
\* is the grid the string spells).
C18_MapValidated ==
    pc = "done" =>
        LET rows == fin.rows
            bad == \/ ~rectangular(rows)
                   \/ \E c \in border(rows) : rows[c[1]][c[2]] # "W"
                   \/ \E i \in 1..Len(rows) : \E j \in 1..Len(rows[i]) :
                         rows[i][j] \notin {"W", "L", "H", "D"}
        IN  /\ bad => fout.raised = "ValueError" /\ fout.map_array = <<>>
            /\ fout.raised = "none" =>
                  /\ fout.map_array = rows
                  /\ rectangular(fout.map_array)
                  /\ \A c \in border(fout.map_array) : fout.map_array[c[1]][c[2]] = "W"

\* A rectangular terrain with Water all around and an unknown character in
\* the middle has been turned down
C18_Witness ==
    /\ pc = "done"
    /\ fin.rows = << <<"W", "W", "W">>, <<"W", "X", "W">>, <<"W", "W", "W">> >>
    /\ fout.raised = "ValueError"


(***************************************************************************)
(* Map.get_neighbors and Animal.migrate on their own: one herbivore in the *)
(* cell (i, j) of a grid.  fin is the grid and the cell, fout the          *)
(* neighbours found and where migrate sent the animal.                     *)
(***************************************************************************)
NeighborGrids == [1..3 -> [1..3 -> {"W", "L"}]]

InitNeighbors ==
    /\ cells = init_cells_array
    /\ year = 0
    /\ final_years = 0
    /\ herbivores_num = 0
    /\ carnivores_num = 0
    /\ paramH = DefaultH
    /\ paramC = DefaultC
    /\ ParamCell = DefaultParamCell
    /\ pc = "call"
    /\ nextId = 1
    /\ hist = <<>>
    /\ last = NoCall
    /\ calls = 0
    /\ effort = 0
    /\ \E g \in NeighborGrids : \E i \in 0..2 : \E j \in 0..2 :
          fin = [map_array |-> AsList([r \in 1..3 |-> AsList(g[r])]), i |-> i, j |-> j]
    /\ fout = <<>>

call_get_neighbors ==
    /\ pc = "call"
    /\ LET neighbors == neighbors_on(fin.map_array, fin.i, fin.j)
       IN  \E destination \in animal_migrate(Animal(1, 5, 20000), paramH, neighbors) :
               fout' = [neighbors |-> neighbors, destination |-> destination]
    /\ pc' = "done"
    /\ UNCHANGED <<cells, year, final_years, herbivores_num, carnivores_num, paramH, paramC,
                   ParamCell, nextId, hist, last, calls, effort, fin>>

NextNeighbors == call_get_neighbors

SpecNeighbors == InitNeighbors /\ [][NextNeighbors]_vars

\* The cells of the grid one orthogonal step from (i, j) that are not water
land_beside(map_array, i, j) ==
    {q \in (0..(Len(map_array) - 1)) \X (0..(Len(map_array[1]) - 1)) :
        /\ \/ q[1] = i /\ (q[2] = j + 1 \/ q[2] = j - 1)
           \/ q[2] = j /\ (q[1] = i + 1 \/ q[1] = i - 1)
        /\ map_array[q[1] + 1][q[2] + 1] # "W"}

\* C19: get_neighbors(i, j) returns, each once, exactly the cells inside the
\* grid that are one step up, down, left or right of (i, j) and are not
\* water (none to four of them, never (i, j) itself); migrate keeps the
\* animal where it is or sends it to one of them, and keeps it where it is
\* when there are none.
C19_NeighboursOrthogonalLand ==
    pc = "done" =>
        LET beside == land_beside(fin.map_array, fin.i, fin.j)
        IN  /\ Range(fout.neighbors) = beside
            /\ Len(fout.neighbors) = Cardinality(beside)
            /\ Len(fout.neighbors) <= 4
            /\ <<fin.i, fin.j>> \notin Range(fout.neighbors)
            /\ fout.destination = Stay \/ fout.destination \in beside
            /\ beside = {} => fout.destination = Stay

\* The animal was in the middle of the grid with land on all four sides and
\* went to the cell below
C19_Witness ==
    /\ pc = "done"
    /\ fin.i = 1
    /\ fin.j = 1
    /\ Len(fout.neighbors) = 4
    /\ fout.destination = <<2, 1>>
    /\ fin.map_array[1][1] = "L"

(***************************************************************************)
(* Two BioSim objects in one interpreter.  Every draw of the simulation is *)
(* a call of a function of the module random (random.choices,              *)
(* random.lognormvariate, random.shuffle), that is of the one generator    *)
(* the interpreter holds, and BioSim.__init__ seeds that generator with    *)
(* random.seed(seed).  What the generator returns is fixed by its seed and *)
(* by what has been drawn from it since: `random` below is the seed and    *)
(* the cycles that have drawn since it was set, and the outcome of a cycle *)
(* is one of those the cycle can have, chosen when the generator is first  *)
(* asked in that state and the same whenever it is asked in it again.      *)
(* fin holds the two objects and the generator, fout the outcomes so far.  *)
(***************************************************************************)
Runs == {"a", "b"}

Seeds == {1, 2}

\* ini_pop and add_population arguments of the two objects
SeedPopulations ==
    { <<>>,
      << [loc |-> <<2, 2>>, pop |-> <<Herb(5, 20000)>>] >> }

\* num_years arguments of the two objects
SeedYears == {1, 2}

\* An object that has not been constructed
NoSim ==
    [built |-> FALSE, seed |-> 0, ini_pop |-> <<>>, cells |-> init_cells_array,
     year |-> 0, herbivores_num |-> 0, carnivores_num |-> 0, nextId |-> 1,
     called |-> <<>>]

\* One phase of Map.annul_cycle on [grid, nextId]: the set it can end with
phase_outcomes(phase, st) ==
    IF phase = "produce" THEN {[st EXCEPT !.grid = map_produce(@)]}
    ELSE IF phase = "givebirth" THEN givebirth_loop(st.grid, st.nextId, 1)
    ELSE IF phase = "feed" THEN {[st EXCEPT !.grid = g] : g \in feed_cells_loop(st.grid, 1)}
    ELSE IF phase = "move_permit" THEN {[st EXCEPT !.grid = map_move_permit(@)]}
    ELSE IF phase = "migrate" THEN {[st EXCEPT !.grid = g] : g \in migrate_loop(st.grid, 1)}
    ELSE IF phase = "grow_loss" THEN {[st EXCEPT !.grid = map_grow_loss(@)]}
    ELSE IF phase = "reset_fodder" THEN {[st EXCEPT !.grid = map_reset_fodder(@)]}
    ELSE {[st EXCEPT !.grid = g] : g \in die_loop(st.grid, 1)}

\* Map.annul_cycle from its k-th phase on: the set of [grid, nextId] the
\* cycle can end with, over all the values its draws can take
RECURSIVE cycle_outcomes(_, _)
cycle_outcomes(st, k) ==
    IF k > Len(annul_cycle) THEN {st}
    ELSE UNION {cycle_outcomes(s, k + 1) : s \in phase_outcomes(annul_cycle[k], st)}

\* random.seed(seed): the generator of the module starts the sequence of seed
random_seed(seed) == [seed |-> seed, drawn |-> <<>>]

\* The generator after a cycle on grid has drawn from it: every animal of a
\* cycle draws (the coin of procreate is tossed for each), no animal no draw
random_after(random, grid) ==
    IF live(grid) = 0 THEN random ELSE [random EXCEPT !.drawn = Append(@, grid)]

\* The outcomes a cycle on st can have when its draws are taken from the
\* generator in the state random: the one the generator gave before in that
\* state, any outcome of the cycle when it is asked there for the first time
cycle_draws(memo, random, st) ==
    LET known == {m \in memo : m.random = random /\ m.st = st}
    IN  IF known # {} THEN {m.outcome : m \in known} ELSE cycle_outcomes(st, 1)

\* The while loop of BioSim.simulate on one object: the set of [sim, random,
\* memo] it can end with
RECURSIVE simulate_loop(_, _, _, _)
simulate_loop(sim, random, memo, final) ==
    IF ~(sim.year < final) THEN {[sim |-> sim, random |-> random, memo |-> memo]}
    ELSE LET st == [grid |-> sim.cells, nextId |-> sim.nextId]
         IN  UNION {
                 simulate_loop(
                     [sim EXCEPT !.cells = o.grid,
                                 !.nextId = o.nextId,
                                 !.herbivores_num = Len(percell_year(o.grid, "animal_list", 1)),
                                 !.carnivores_num =
                                     Len(percell_year(o.grid, "Carnivores_list", 1)),
                                 !.year = count_year(@)],
                     random_after(random, st.grid),
                     memo \cup {[random |-> random, st |-> st, outcome |-> o]},
                     final)
                 : o \in cycle_draws(memo, random, st)}

InitSeed ==
    /\ cells = init_cells_array
    /\ year = 0
    /\ final_years = 0
    /\ herbivores_num = 0
    /\ carnivores_num = 0
    /\ paramH = DefaultH
    /\ paramC = DefaultC
    /\ ParamCell = DefaultParamCell
    /\ pc = "call"
    /\ nextId = 1
    /\ hist = <<>>
    /\ last = NoCall
    /\ calls = 0
    /\ effort = 0
    /\ fin = [sims |-> [r \in Runs |-> NoSim], random |-> random_seed(0)]
    /\ fout = {}

\* BioSim.__init__ of object r: random.seed(seed), _year = 0, the map, and
\* the counts add_population(ini_pop) returns
run_construct(r, seed, ini_pop) ==
    /\ ~fin.sims[r].built
    /\ LET m == add_fauna(init_cells_array, ini_pop, 1)
       IN  fin' = [sims |-> [fin.sims EXCEPT ![r] =
                                [built |-> TRUE, seed |-> seed, ini_pop |-> ini_pop,
                                 cells |-> m.grid, year |-> 0,
                                 herbivores_num |-> m.ret[1], carnivores_num |-> m.ret[2],
                                 nextId |-> m.nextId, called |-> <<>>]],
                   random |-> random_seed(seed)]
    /\ UNCHANGED <<simvars, fout>>

\* The years the objects have simulated between them
years_run == fin.sims["a"].year + fin.sims["b"].year

\* BioSim.simulate(num_years) of object r, its annual cycles included
run_simulate(r, num_years) ==
    /\ fin.sims[r].built
    /\ years_run + num_years <= MaxYear
    /\ \E e \in simulate_loop(fin.sims[r], fin.random, fout, fin.sims[r].year + num_years) :
          /\ fin' = [sims |-> [fin.sims EXCEPT ![r] =
                                  [e.sim EXCEPT !.called =
                                      Append(@, <<"simulate", num_years>>)]],
                     random |-> e.random]
          /\ fout' = e.memo
    /\ UNCHANGED simvars

\* BioSim.add_population(population) of object r
run_add_population(r, population) ==
    /\ fin.sims[r].built
    /\ Cardinality({i \in 1..Len(fin.sims[r].called) :
                       fin.sims[r].called[i][1] = "add_population"}) < MaxCalls
    /\ fin.sims[r].nextId + pop_size(population) <= MaxAnimals + 1
    /\ LET sim == fin.sims[r]
           m == add_fauna(sim.cells, population, sim.nextId)
       IN  fin' = [fin EXCEPT !.sims[r] =
                      [sim EXCEPT !.cells = m.grid,
                                  !.nextId = m.nextId,
                                  !.herbivores_num = IF sim.year # 0 THEN @ + m.ret[1] ELSE @,
                                  !.carnivores_num = IF sim.year # 0 THEN @ + m.ret[2] ELSE @,
                                  !.called = Append(@, <<"add_population", population>>)]]
    /\ UNCHANGED <<simvars, fout>>

NextSeed ==
    \/ \E r \in Runs : \E seed \in Seeds : \E ini_pop \in SeedPopulations :
          run_construct(r, seed, ini_pop)
    \/ \E r \in Runs : \E num_years \in SeedYears : run_simulate(r, num_years)
    \/ \E r \in Runs : \E population \in SeedPopulations : run_add_population(r, population)

SpecSeed == InitSeed /\ [][NextSeed]_vars

\* C20: two objects built from the same terrain, initial population,
\* parameters and seed that have been given the same sequence of simulate
\* and add_population calls are in the same state: same year, same counts,
\* and the same animals with the same age and weight in every cell.
C20_SameSeedSameStates ==
    \A r1, r2 \in Runs :
        LET s1 == fin.sims[r1]
            s2 == fin.sims[r2]
        IN  (/\ s1.built
             /\ s2.built
             /\ s1.seed = s2.seed
             /\ s1.ini_pop = s2.ini_pop
             /\ s1.called = s2.called)
            => /\ s1.year = s2.year
               /\ s1.herbivores_num = s2.herbivores_num
               /\ s1.carnivores_num = s2.carnivores_num
               /\ s1.cells = s2.cells

(***************************************************************************)
(* Animal.weight_loss_per_year on its own: one animal of either species    *)
(* whose table has any legal eta.  fin is the species and the animal       *)
(* before the call, fout the animal after it.                              *)
(***************************************************************************)
\* Values of eta that update_para accepts: 0, the two defaults, 1, and 2
LossEtas == {0, 50, 125, Scale, 2 * Scale}

LossAges == {0, 5, 60}

\* Weights whose loss is exact in the fixed-point arithmetic
LossWeights == {0, 400, 8000, 20000, 60000}

InitLoss ==
    /\ cells = init_cells_array
    /\ year = 0
    /\ final_years = 0
    /\ herbivores_num = 0
    /\ carnivores_num = 0
    /\ \E eta \in LossEtas :
          /\ paramH = update_para(DefaultH, << <<"eta", eta>> >>).parameter
          /\ paramC = update_para(DefaultC, << <<"eta", eta>> >>).parameter
    /\ ParamCell = DefaultParamCell
    /\ pc = "call"
    /\ nextId = 1
    /\ hist = <<>>
    /\ last = NoCall
    /\ calls = 0
    /\ effort = 0
    /\ \E f \in {"Herbivore", "Carnivore"} : \E age \in LossAges : \E weight \in LossWeights :
          fin = [species |-> f, animal |-> Animal(1, age, weight)]
    /\ fout = <<>>

call_weight_loss ==
    /\ pc = "call"
    /\ fout' = weight_loss_per_year(fin.animal, parameter_of(fin.species))
    /\ pc' = "done"
    /\ UNCHANGED <<cells, year, final_years, herbivores_num, carnivores_num, paramH, paramC,
                   ParamCell, nextId, hist, last, calls, effort, fin>>

NextLoss == call_weight_loss

SpecLoss == InitLoss /\ [][NextLoss]_vars

\* C21 as stated: whatever the legal eta, the call leaves an animal of
\* weight above 0 strictly lighter and no animal with a negative weight.
C21_StrictLossAnyEta ==
    pc = "done" =>
        /\ fout.weight >= 0
        /\ fin.animal.weight > 0 => fout.weight < fin.animal.weight

\* C21: the call never leaves a negative weight and never a heavier animal;
\* an animal of weight above 0 is strictly lighter after it when eta is
\* above 0 and keeps its weight when eta is 0; with eta 1 or more the
\* weight is 0 afterwards; age, identity and flag are not touched.
C21_LossByEta ==
    pc = "done" =>
        LET eta == parameter_of(fin.species).eta
            w   == fin.animal.weight
        IN  /\ fout.weight >= 0
            /\ fout.weight <= w
            /\ (w > 0 /\ eta > 0) => fout.weight < w
            /\ eta = 0 => fout.weight = w
            /\ eta >= Scale => fout.weight = 0
            /\ fout = [fin.animal EXCEPT !.weight = fout.weight]

\* An animal of weight 20 has lost weight under eta 2, which would have
\* taken it below 0
C21_Witness ==
    /\ pc = "done"
    /\ parameter_of(fin.species).eta = 2 * Scale
    /\ fin.animal.weight = 20000
    /\ fout.weight = 0

(***************************************************************************)
(* The tables after a call that raised.                                    *)
(***************************************************************************)
\* C22: a call of set_animal_parameters or set_landscape_parameters that
\* raises leaves the species tables and f_max_L, f_max_H as they were
\* before the call.
C22_RejectedCallChangesNothing ==
    [][(calls' = calls + 1 /\ last'.raised # "none")
          => (paramH' = paramH /\ paramC' = paramC /\ ParamCell' = ParamCell)]_vars

(***************************************************************************)
(* Carnivores.eat on its own: a carnivore of age 5 and weight 20 and a     *)
(* list of herbivores of age 5 in ascending order of weight, under a table *)
(* with any legal F.  fin is the carnivore and the list, fout the hunt     *)
(* list, the carnivore afterwards and the list eat() returned.             *)
(***************************************************************************)
EatF == {0, 10000, 50000}

EatPreyWeights == {8000, 20000, 30000, 60000}

EatPreyCounts == 0..3

InitEat ==
    /\ cells = init_cells_array
    /\ year = 0
    /\ final_years = 0
    /\ herbivores_num = 0
    /\ carnivores_num = 0
    /\ paramH = DefaultH
    /\ \E F \in EatF : paramC = update_para(DefaultC, << <<"F", F>> >>).parameter
    /\ ParamCell = DefaultParamCell
    /\ pc = "call"
    /\ nextId = 1
    /\ hist = <<>>
    /\ last = NoCall
    /\ calls = 0
    /\ effort = 0
    /\ \E n \in EatPreyCounts : \E w \in [1..n -> EatPreyWeights] :
          /\ \A i, j \in 1..n : i < j => w[i] <= w[j]
          /\ fin = [carnivore |-> Animal(n + 1, 5, 20000),
                    animal_list |-> AsList([i \in 1..n |-> Animal(i, 5, w[i])])]
    /\ fout = <<>>

\* Carnivores.eat(animal_list): the hunt, then the meal
call_eat ==
    /\ pc = "call"
    /\ \E f \in hunt_flips(fin.carnivore, fin.animal_list, paramC, paramH) :
          LET hunt_list == hunt(fin.animal_list, f)
              r == carnivore_eat(fin.carnivore, paramC, hunt_list)
          IN  fout' = [hunt_list |-> hunt_list, carnivore |-> r.carnivore, eaten |-> r.eaten]
    /\ pc' = "done"
    /\ UNCHANGED <<cells, year, final_years, herbivores_num, carnivores_num, paramH, paramC,
                   ParamCell, nextId, hist, last, calls, effort, fin>>

NextEat == call_eat

SpecEat == InitEat /\ [][NextEat]_vars

\* The weight of the first k animals of a list
prefix_weight(list, k) == SumSeq(AsList([i \in 1..k |-> list[i].weight]))

\* The lengths k, from least on, of the prefixes of a list that weigh F or
\* more; the whole list when none does
prefix_to(list, F, least) ==
    LET reach == {k \in least..Len(list) : prefix_weight(list, k) >= F}
    IN  IF reach = {} THEN Len(list) ELSE CHOOSE k \in reach : \A j \in reach : k <= j

HuntDeltaPhiMax == {10000, 400, 0}

\* <<age, weight>> of the carnivore: fitness 0, about 0.5, about 1, near 0
HuntCarnivores == {<<5, 0>>, <<5, 4000>>, <<5, 20000>>, <<60, 3000>>}

\* <<age, weight>> of the prey: fitness about 1, about 0.45, near 0, 0
HuntPrey == {<<5, 60000>>, <<5, 8000>>, <<60, 3000>>, <<5, 0>>}

HuntPreyCounts == 0..2

InitHunt ==
    /\ cells = init_cells_array
    /\ year = 0
    /\ final_years = 0
    /\ herbivores_num = 0
    /\ carnivores_num = 0
    /\ paramH = DefaultH
    /\ \E D \in HuntDeltaPhiMax :
          paramC = update_para(DefaultC, << <<"DeltaPhiMax", D>> >>).parameter
    /\ ParamCell = DefaultParamCell
    /\ pc = "call"
    /\ nextId = 1
    /\ hist = <<>>
    /\ last = NoCall
    /\ calls = 0
    /\ effort = 0
    /\ \E c \in HuntCarnivores : \E n \in HuntPreyCounts : \E h \in [1..n -> HuntPrey] :
          fin = [carnivore |-> Animal(n + 1, c[1], c[2]),
                 animal_list |-> AsList([i \in 1..n |-> Animal(i, h[i][1], h[i][2])])]
    /\ fout = <<>>

\* Carnivores.hunt(animal_list)
call_hunt ==
    /\ pc = "call"
    /\ \E f \in hunt_flips(fin.carnivore, fin.animal_list, paramC, paramH) :
          fout' = hunt(fin.animal_list, f)
    /\ pc' = "done"
    /\ UNCHANGED <<cells, year, final_years, herbivores_num, carnivores_num, paramH, paramC,
                   ParamCell, nextId, hist, last, calls, effort, fin>>

NextHunt == call_hunt

SpecHunt == InitHunt /\ [][NextHunt]_vars

\* C24: with fit the carnivore's fitness when the hunt starts, a herbivore
\* whose fitness is fit or more is never in the hunt list, a herbivore that
\* the carnivore outclasses by DeltaPhiMax or more always is, the hunt list
\* is the input list without the animals that escaped, in the same order,
\* and a carnivore of weight 0 hunts nothing.
C24_HuntByFitnessGap ==
    pc = "done" =>
        LET fit == fitness(fin.carnivore, paramC)
        IN  /\ \A i \in 1..Len(fin.animal_list) :
                  LET animal_fitness == fitness(fin.animal_list[i], paramH)
                  IN  /\ animal_fitness >= fit => fin.animal_list[i].id \notin Ids(fout)
                      /\ (/\ fit > animal_fitness
                          /\ (fit - animal_fitness) * Scale >= paramC.DeltaPhiMax * FitScale)
                         => fin.animal_list[i].id \in Ids(fout)
            /\ fout = SelectSeq(fin.animal_list, LAMBDA a : a.id \in Ids(fout))
            /\ fin.carnivore.weight = 0 => fout = <<>>

\* With DeltaPhiMax 0.4 a carnivore of fitness about 0.5 left the fit
\* herbivore alone and took the one of weight 0
C24_Witness ==
    /\ pc = "done"
    /\ paramC.DeltaPhiMax = 400
    /\ fin.carnivore.weight = 4000
    /\ Len(fin.animal_list) = 2
    /\ fin.animal_list[1].weight = 60000
    /\ fin.animal_list[2].weight = 0
    /\ fitness(fin.animal_list[1], paramH) >= fitness(fin.carnivore, paramC)
    /\ fout = <<fin.animal_list[2]>>

(***************************************************************************)
(* Cell.feed_carnivores on its own: one cell with up to MaxResidents       *)
(* carnivores and as many herbivores, all of age 5, in any order.  fin is  *)
(* the cell before the call, fout the cell after it and the turns taken.   *)
(***************************************************************************)
FeedCarnivoreWeights == {4000, 20000, 30000}

FeedPreyWeights == {8000, 30000, 60000}

InitFeedCarnivores ==
    /\ cells = init_cells_array
    /\ year = 0
    /\ final_years = 0
    /\ herbivores_num = 0
    /\ carnivores_num = 0
    /\ paramH = DefaultH
    /\ paramC = DefaultC
    /\ ParamCell = DefaultParamCell
    /\ pc = "call"
    /\ nextId = 1
    /\ hist = <<>>
    /\ last = NoCall
    /\ calls = 0
    /\ effort = 0
    /\ \E n \in 0..MaxResidents : \E m \in 0..MaxResidents :
       \E h \in [1..n -> FeedPreyWeights] : \E c \in [1..m -> FeedCarnivoreWeights] :
          fin = [Cell("L") EXCEPT
                    !.animal_list = AsList([i \in 1..n |-> Animal(i, 5, h[i])]),
                    !.Carnivores_list = AsList([i \in 1..m |-> Animal(n + i, 5, c[i])])]
    /\ fout = <<>>

call_feed_carnivores ==
    /\ pc = "call"
    /\ fout' \in feed_carnivores_turns(fin, paramC, paramH)
    /\ pc' = "done"
    /\ UNCHANGED <<cells, year, final_years, herbivores_num, carnivores_num, paramH, paramC,
                   ParamCell, nextId, hist, last, calls, effort, fin>>

NextFeedCarnivores == call_feed_carnivores

SpecFeedCarnivores == InitFeedCarnivores /\ [][NextFeedCarnivores]_vars

\* The animal of a list with the given identity
by_id(list, id) == list[CHOOSE i \in 1..Len(list) : list[i].id = id]

\* The herbivores eaten in the first k turns
eaten_by_turn(meals, k) == UNION {Ids(meals[t].eaten) : t \in 1..k}

FeedF == {4000, 10000}

\* Stocks: none, less than one meal, one meal, some meals, plenty, and the
\* negative stock a negative f_max leaves
FeedFodder == {-300000, 0, 3000, 10000, 15000, 25000, 800000}

FeedWeights == {8000, 20000}

InitFeed ==
    /\ cells = init_cells_array
    /\ year = 0
    /\ final_years = 0
    /\ herbivores_num = 0
    /\ carnivores_num = 0
    /\ \E F \in FeedF : paramH = update_para(DefaultH, << <<"F", F>> >>).parameter
    /\ paramC = DefaultC
    /\ ParamCell = DefaultParamCell
    /\ pc = "call"
    /\ nextId = 1
    /\ hist = <<>>
    /\ last = NoCall
    /\ calls = 0
    /\ effort = 0
    /\ \E f \in FeedFodder : \E n \in 0..MaxResidents : \E h \in [1..n -> FeedWeights] :
          fin = [Cell("L") EXCEPT
                    !.fodder = f,
                    !.animal_list = AsList([i \in 1..n |-> Animal(i, 5, h[i])])]
    /\ fout = <<>>

call_feed_animals ==
    /\ pc = "call"
    /\ \E perm \in Perms(fin.animal_list) : fout' = feed_animals(fin, paramH, perm)
    /\ pc' = "done"
    /\ UNCHANGED <<cells, year, final_years, herbivores_num, carnivores_num, paramH, paramC,
                   ParamCell, nextId, hist, last, calls, effort, fin>>

NextFeed == call_feed_animals

SpecFeed == InitFeed /\ [][NextFeed]_vars

\* C26: with n herbivores, a stock f and an intake F above 0, the first
\* min(n, floor(f / F)) herbivores of the shuffled order (none when the
\* stock is below 0) have each gained beta * F and nothing else of them has
\* changed, every later herbivore is as it was, the stock has dropped by F
\* per herbivore fed, and the cell holds the same herbivores as before.
C26_FeedWhileStockLasts ==
    pc = "done" =>
        LET n   == Len(fin.animal_list)
            fed == Max(0, Min(n, fin.fodder \div paramH.F))
        IN  /\ Len(fout.animal_list) = n
            /\ Ids(fout.animal_list) = Ids(fin.animal_list)
            /\ \A i \in 1..fed :
                  fout.animal_list[i] =
                      [by_id(fin.animal_list, fout.animal_list[i].id) EXCEPT
                          !.weight = @ + (paramH.beta * paramH.F) \div Scale]
            /\ \A i \in (fed + 1)..n :
                  fout.animal_list[i] = by_id(fin.animal_list, fout.animal_list[i].id)
            /\ fout.fodder = fin.fodder - fed * paramH.F
            /\ fout.Carnivores_list = fin.Carnivores_list
            /\ fout.geography = fin.geography

\* With a stock of 15 and an intake of 10 the herbivore listed second was
\* shuffled to the front and fed, the other one was not, and 5 is left
C26_Witness ==
    /\ pc = "done"
    /\ paramH.F = 10000
    /\ fin.fodder = 15000
    /\ Len(fin.animal_list) = 2
    /\ fin.animal_list[1].weight = 8000
    /\ fin.animal_list[2].weight = 20000
    /\ fout.animal_list[1].weight = 29000
    /\ fout.animal_list[2].weight = 8000
    /\ fout.fodder = 5000

(***************************************************************************)
(* Ageing and weight loss over the annual cycle.                           *)
(***************************************************************************)
\* The animals of one species on the map, the water included
everywhere(grid, field) == UNION {Range(grid[p][field]) : p \in Pos}

\* The table of the species kept in a field of the cells
parameter_in(field) == IF field = "animal_list" THEN paramH ELSE paramC

\* C27: the grow_loss phase of a cycle gives every animal on the map one
\* more year and one yearly weight loss, wherever the animal is and
\* whether it moved or was born in the cycle, and no other step of the
\* cycle changes the age of an animal.
C27_EveryAnimalAgedOnce ==
    [][\A field \in Species :
          \A a \in everywhere(cells, field) : \A b \in everywhere(cells', field) :
              a.id = b.id =>
                  IF pc = "grow_loss"
                  THEN /\ b.age = a.age + 1
                       /\ b.weight = weight_loss_per_year(a, parameter_in(field)).weight
                  ELSE b.age = a.age]_vars

(***************************************************************************)
(* The moved flag over the cycles.                                         *)
(***************************************************************************)
\* C28: when the migration phase of a cycle starts, no animal in a cell
\* that is not water is flagged moved, the animals born in the cycle and
\* those that moved in an earlier cycle included.
C28_PermitBeforeMigration ==
    pc = "migrate" =>
        \A k \in 1..Len(not_water) : \A field \in Species :
            \A i \in 1..Len(cells[not_water[k]][field]) :
                ~cells[not_water[k]][field][i].moved

\* The migration of the second cycle is about to start; the carnivore that
\* was placed in the desert moved to the highland in the first cycle
C28_Witness ==
    /\ pc = "migrate"
    /\ year = 1
    /\ cells[<<1, 3>>].Carnivores_list = <<>>
    /\ Len(cells[<<1, 2>>].Carnivores_list) = 1
    /\ cells[<<1, 2>>].Carnivores_list[1].age = 6
    /\ Len(cells[<<0, 0>>].animal_list) = 1

(***************************************************************************)
(* The death phase of one cell (the body of the loop of Map.die): up to    *)
(* MaxResidents herbivores and as many carnivores.  fin is the cell before *)
(* the two calls, fout the cell after them and the two lists returned.     *)
(***************************************************************************)
\* <<age, weight>>: weight 0, fit, old and light
CellDeathResidents == {<<5, 0>>, <<5, 20000>>, <<60, 3000>>}

InitCellDeath ==
    /\ cells = init_cells_array
    /\ year = 0
    /\ final_years = 0
    /\ herbivores_num = 0
    /\ carnivores_num = 0
    /\ paramH = DefaultH
    /\ paramC = DefaultC
    /\ ParamCell = DefaultParamCell
    /\ pc = "call"
    /\ nextId = 1
    /\ hist = <<>>
    /\ last = NoCall
    /\ calls = 0
    /\ effort = 0
    /\ \E n \in 0..MaxResidents : \E m \in 0..MaxResidents :
       \E h \in [1..n -> CellDeathResidents] : \E c \in [1..m -> CellDeathResidents] :
          fin = [Cell("D") EXCEPT
                    !.animal_list = AsList([i \in 1..n |-> Animal(i, h[i][1], h[i][2])]),
                    !.Carnivores_list =
                        AsList([i \in 1..m |-> Animal(n + i, c[i][1], c[i][2])])]
    /\ fout = <<>>

call_cell_death ==
    /\ pc = "call"
    /\ fout' \in cell_death(fin, paramH, paramC)
    /\ pc' = "done"
    /\ UNCHANGED <<cells, year, final_years, herbivores_num, carnivores_num, paramH, paramC,
                   ParamCell, nextId, hist, last, calls, effort, fin>>

NextCellDeath == call_cell_death

SpecCellDeath == InitCellDeath /\ [][NextCellDeath]_vars

\* What the death phase did to one list: the survivors are the residents
\* that are not among the returned ones, as they were and in their order;
\* the returned ones are residents for which die() can be true and the
\* survivors residents for which it can be false
death_removed(before, after, died, parameter) ==
    /\ after = SelectSeq(before, LAMBDA a : a.id \notin Ids(died))
    /\ died = SelectSeq(before, LAMBDA a : a.id \in Ids(died))
    /\ Len(after) + Len(died) = Len(before)
    /\ \A i \in 1..Len(died) : TRUE \in die(died[i], parameter)
    /\ \A i \in 1..Len(after) : FALSE \in die(after[i], parameter)

\* C29: the death phase of a cell removes from each list exactly the
\* residents for which die() was true and returns them; the survivors keep
\* their order, age and weight; the deaths of one species leave the list of
\* the other as it is; and no resident of the cell has weight 0 afterwards.
C29_DeathRemovesTheDead ==
    pc = "done" =>
        /\ death_removed(fin.animal_list, fout.cell.animal_list,
                         fout.died_animal_list, paramH)
        /\ death_removed(fin.Carnivores_list, fout.cell.Carnivores_list,
                         fout.died_carnivores_list, paramC)
        /\ fout.died_animal_list = <<>> => fout.cell.animal_list = fin.animal_list
        /\ fout.died_carnivores_list = <<>> => fout.cell.Carnivores_list = fin.Carnivores_list
        /\ fout.cell.fodder = fin.fodder
        /\ fout.cell.geography = fin.geography
        /\ \A field \in Species : \A i \in 1..Len(fout.cell[field]) :
              fout.cell[field][i].weight # 0

\* Of two herbivores the one of weight 0 was removed and returned, the fit
\* one behind it survived, and the two carnivores are as they were
C29_Witness ==
    /\ pc = "done"
    /\ Len(fin.animal_list) = 2
    /\ fin.animal_list[1].weight = 0
    /\ fout.died_animal_list = <<fin.animal_list[1]>>
    /\ fout.cell.animal_list = <<fin.animal_list[2]>>
    /\ Len(fin.Carnivores_list) = 2
    /\ fout.cell.Carnivores_list = fin.Carnivores_list
    /\ fout.died_carnivores_list = <<>>

(***************************************************************************)
(* Water cells.                                                            *)
(***************************************************************************)
\* C30: no water cell ever holds an animal: after construction with an
\* initial population, add_population calls and annual cycles, the
\* herbivore list and the carnivore list of every water cell are empty.
C30_WaterCellsEmpty ==
    \A p \in Pos : geo(p) = "W" =>
        /\ cells[p].animal_list = <<>>
        /\ cells[p].Carnivores_list = <<>>

\* The consequence the claim draws: at the end of every cycle the reported
\* herbivore count is the number of herbivores on the map.
C30_CountsEveryAnimal ==
    pc = "idle" /\ year > 0 /\ last.op = "simulate" =>
        herbivores_num = Cardinality(everywhere(cells, "animal_list"))

=============================================================================
